---------------------------- MODULE Spec2Model ----------------------------
(***************************************************************************)
(* A model of the Teamcenter syslog parser of TCSyslogViewer               *)
(* (parseTeamcenterLog and the scanners it calls).  A document text is a   *)
(* TLA+ string; a line is a string; JavaScript offsets are 0-based and    *)
(* end-exclusive, as in the source.                                        *)
(***************************************************************************)
EXTENDS Integers, Sequences, FiniteSets, TLC

VARIABLES
    content,     \* the argument handed to parseTeamcenterLog (a JS value)
    nChunks,     \* how many pieces of text the document was assembled from
    family,      \* which kind of log the document is assembled from
    phase,       \* "editing" | "parsed"
    result,      \* what the last call returned (or that it threw)
    lastIndex,   \* LOG_LINE_REGEX.lastIndex, the module-level state of the regex
    calls,       \* SpecCalls: the calls made so far, <<text, result>> each
    shape,       \* SpecLogLine / SpecInlineSql: the pieces the input was built from
    probe,       \* SpecLogLine / SpecInlineSql: the input and what the code returned
    chat,        \* SpecChat: the AI chat (AiChatManager and its agent)
    view,        \* SpecView: what SyslogController holds and shows
    favorites    \* SpecFavorites: FavoritesManager, its files and its reads in flight

vars == <<content, nChunks, family, phase, result, lastIndex, calls, shape, probe, chat, view,
          favorites>>

(***************************************************************************)
(* JavaScript values: null / undefined and optional numbers.               *)
(***************************************************************************)
Null == <<>>
Some(v) == <<v>>
IsNull(x) == x = <<>>
Val(x) == x[1]

Max(a, b) == IF a >= b THEN a ELSE b
Min(a, b) == IF a <= b THEN a ELSE b

(***************************************************************************)
(* String primitives (the String.prototype methods), 0-based as in JS.     *)
(***************************************************************************)
\* s.charAt(i)
CharAt(s, i) == SubSeq(s, i + 1, i + 1)
\* s.slice(a, b) for 0 <= a, b
Slice(s, a, b) == SubSeq(s, a + 1, b)
\* s.slice(a)
SliceFrom(s, a) == SubSeq(s, a + 1, Len(s))
\* s.startsWith(p)
StartsWith(s, p) == Len(s) >= Len(p) /\ SubSeq(s, 1, Len(p)) = p
\* s.startsWith(p, at)
StartsWithAt(s, p, at) == at + Len(p) <= Len(s) /\ SubSeq(s, at + 1, at + Len(p)) = p

\* the characters \s matches and trim() strips, among those a line can hold
WhiteSpace == {" ", "\t", "\f", "\r", "\n"}
Digits == {"0", "1", "2", "3", "4", "5", "6", "7", "8", "9"}
UpperLetters == {"A", "B", "C", "D", "E", "F", "G", "H", "I", "J", "K", "L", "M",
                 "N", "O", "P", "Q", "R", "S", "T", "U", "V", "W", "X", "Y", "Z"}
LowerLetters == {"a", "b", "c", "d", "e", "f", "g", "h", "i", "j", "k", "l", "m",
                 "n", "o", "p", "q", "r", "s", "t", "u", "v", "w", "x", "y", "z"}
Letters == UpperLetters \cup LowerLetters
\* what "." matches in a regex without the s flag
IsDot(c) == c \notin {"\n", "\r"}

UpperOf == [c \in LowerLetters |->
    CASE c = "a" -> "A" [] c = "b" -> "B" [] c = "c" -> "C" [] c = "d" -> "D"
      [] c = "e" -> "E" [] c = "f" -> "F" [] c = "g" -> "G" [] c = "h" -> "H"
      [] c = "i" -> "I" [] c = "j" -> "J" [] c = "k" -> "K" [] c = "l" -> "L"
      [] c = "m" -> "M" [] c = "n" -> "N" [] c = "o" -> "O" [] c = "p" -> "P"
      [] c = "q" -> "Q" [] c = "r" -> "R" [] c = "s" -> "S" [] c = "t" -> "T"
      [] c = "u" -> "U" [] c = "v" -> "V" [] c = "w" -> "W" [] c = "x" -> "X"
      [] c = "y" -> "Y" [] OTHER -> "Z"]

\* s.toUpperCase(), a half of the string at a time
RECURSIVE ToUpperCase(_)
ToUpperCase(s) ==
    IF Len(s) = 0 THEN ""
    ELSE IF Len(s) = 1 THEN (IF s \in LowerLetters THEN UpperOf[s] ELSE s)
    ELSE ToUpperCase(SubSeq(s, 1, Len(s) \div 2))
            \o ToUpperCase(SubSeq(s, Len(s) \div 2 + 1, Len(s)))

\* the offset of the first character at or after i that is not in cls (Len(s) if none)
SkipWhile(s, i, cls) ==
    IF i >= Len(s) THEN i
    ELSE CHOOSE k \in i .. Len(s) :
            /\ k = Len(s) \/ CharAt(s, k) \notin cls
            /\ \A j \in i .. (k - 1) : CharAt(s, j) \in cls

\* the offset just after the last character before j that is not in cls (0 if none)
SkipBack(s, j, cls) ==
    IF j <= 0 THEN j
    ELSE CHOOSE k \in 0 .. j :
            /\ k = 0 \/ CharAt(s, k - 1) \notin cls
            /\ \A m \in k .. (j - 1) : CharAt(s, m) \in cls

\* s.trimStart()
TrimStart(s) == SliceFrom(s, SkipWhile(s, 0, WhiteSpace))
\* s.trim()
Trim(s) ==
    LET a == SkipWhile(s, 0, WhiteSpace)
    IN IF a = Len(s) THEN "" ELSE Slice(s, a, SkipBack(s, Len(s), WhiteSpace))

\* s.indexOf(sub, from): the first offset >= from where sub occurs, or -1
IndexOf(s, sub, from) ==
    IF \E k \in from .. (Len(s) - Len(sub)) : StartsWithAt(s, sub, k)
    THEN CHOOSE k \in from .. (Len(s) - Len(sub)) :
            /\ StartsWithAt(s, sub, k)
            /\ \A j \in from .. (k - 1) : ~StartsWithAt(s, sub, j)
    ELSE -1

\* whether every character of s is in cls
AllIn(s, cls) == SkipWhile(s, 0, cls) = Len(s)

\* a.concat(b) for arrays, and the indices of an array
Indices(a) == 0 .. (Len(a) - 1)
At(a, i) == a[i + 1]


(***************************************************************************)
(* Line splitter: content.split(/\r?\n/)                               *)
(***************************************************************************)
RECURSIVE SplitLines(_)
SplitLines(text) ==
    LET k == IndexOf(text, "\n", 0)
    IN IF k < 0 THEN <<text>>
       ELSE LET e == IF k > 0 /\ CharAt(text, k - 1) = "\r" THEN k - 1 ELSE k
            IN <<Slice(text, 0, e)>> \o SplitLines(SliceFrom(text, k + 1))

(***************************************************************************)
(* The module-level tables of the parser.                                  *)
(***************************************************************************)
\* the superseded alternation of level words, which has no FATAL
LOG_LEVELS_SUPERSEDED == <<"INFO", "DEBUG", "NOTE", "WARN", "ERROR">>
\* the alternation of level words in LOG_LINE_REGEX
LOG_LEVELS == <<"INFO", "DEBUG", "NOTE", "WARN", "ERROR", "FATAL">>

SYSTEM_INFO_PREFIXES ==
    <<"Node Name", "Machine type", "OS", "# Processors", "Memory", "Total Swap",
      "Free  Swap", "Machine supports", "Running">>

INLINE_SQL_KEYWORDS ==
    {"SELECT", "INSERT", "UPDATE", "DELETE", "MERGE", "WITH", "TRUNCATE", "CREATE",
     "ALTER", "DROP", "CALL", "EXEC", "BEGIN", "COMMIT", "CONNECT", "ROLLBACK"}

(***************************************************************************)
(* Inline-SQL heuristic.  The argument is a JS value: Null for a       *)
(* missing text, Some(string) otherwise.                                   *)
(***************************************************************************)
\* the length of the match of /^SQL\s*[:>\-=]?\s*/i at the start of s, or -1
SqlPrefixLength(s) ==
    IF Len(s) >= 3 /\ ToUpperCase(Slice(s, 0, 3)) = "SQL"
    THEN LET a == SkipWhile(s, 3, WhiteSpace)
             b == IF a < Len(s) /\ CharAt(s, a) \in {":", ">", "-", "="} THEN a + 1 ELSE a
         IN SkipWhile(s, b, WhiteSpace)
    ELSE -1

isInlineSqlTextLowerCaseToo(text) ==
    IF IsNull(text) \/ Val(text) = "" THEN FALSE
    ELSE LET trimmed == Trim(Val(text))
             plen == SqlPrefixLength(trimmed)
             working == IF plen >= 0 THEN SliceFrom(trimmed, plen) ELSE trimmed
             token == Slice(working, 0, SkipWhile(working, 0, Letters))
         IN /\ trimmed # ""
            /\ token # ""
            /\ ToUpperCase(token) \in INLINE_SQL_KEYWORDS

isInlineSqlText(text) ==
    IF IsNull(text) \/ Val(text) = "" THEN FALSE
    ELSE LET trimmed == Trim(Val(text))
             plen == SqlPrefixLength(trimmed)
             working == IF plen >= 0 THEN SliceFrom(trimmed, plen) ELSE trimmed
             token == Slice(working, 0, SkipWhile(working, 0, Letters))
             upper == ToUpperCase(token)
         IN /\ trimmed # ""
            /\ token # ""
            /\ upper \in INLINE_SQL_KEYWORDS
            /\ token = upper

(***************************************************************************)
(* The heuristic scanners, each a pass over the line array.                *)
(***************************************************************************)
\* lines[i] of a JS array: undefined (Null) outside the array
Element(lines, i) == IF i >= 0 /\ i < Len(lines) THEN Some(At(lines, i)) ELSE Null

\* a value or a thrown exception
Returned(v) == [threw |-> FALSE, value |-> v]
Thrown == [threw |-> TRUE, value |-> Null]

HeaderOf(headerLines) ==
    IF headerLines = <<>> THEN Null
    ELSE Some([line |-> headerLines[1].line, lines |-> headerLines])

\* collectHeader with lines[1].startsWith(...) in place of lines[1]?.startsWith(...)
collectHeaderUnguarded(lines) ==
    IF IsNull(Element(lines, 1)) THEN Thrown
    ELSE Returned(HeaderOf(
            (IF StartsWith(At(lines, 0), "***")
             THEN <<[line |-> 0, text |-> At(lines, 0)]>> ELSE <<>>)
            \o (IF StartsWith(At(lines, 1), "*** system log created by")
                THEN <<[line |-> 1, text |-> At(lines, 1)]>> ELSE <<>>)))

collectHeader(lines) ==
    IF Len(lines) = 0 THEN Returned(Null)
    ELSE LET l0 == Element(lines, 0)
             l1 == Element(lines, 1)
             first == IF ~IsNull(l0) /\ StartsWith(Val(l0), "***")
                      THEN <<[line |-> 0, text |-> Val(l0)]>> ELSE <<>>
             second == IF ~IsNull(l1) /\ StartsWith(Val(l1), "*** system log created by")
                       THEN <<[line |-> 1, text |-> Val(l1)]>> ELSE <<>>
         IN Returned(HeaderOf(first \o second))

\* SYSTEM_INFO_PREFIXES.find((label) => raw.startsWith(label)), from the k-th label on
RECURSIVE FindPrefix(_, _)
FindPrefix(raw, k) ==
    IF k > Len(SYSTEM_INFO_PREFIXES) THEN Null
    ELSE IF StartsWith(raw, SYSTEM_INFO_PREFIXES[k]) THEN Some(SYSTEM_INFO_PREFIXES[k])
    ELSE FindPrefix(raw, k + 1)

RECURSIVE collectSystemInfoFrom(_, _)
collectSystemInfoFrom(lines, i) ==
    IF i >= Len(lines) THEN <<>>
    ELSE LET raw == At(lines, i)
             prefix == IF raw = "" THEN Null ELSE FindPrefix(raw, 1)
         IN IF IsNull(prefix) THEN collectSystemInfoFrom(lines, i + 1)
            ELSE LET rest == SliceFrom(raw, Len(Val(prefix)))
                     value == SliceFrom(rest, SkipWhile(rest, 0, WhiteSpace \cup {":", "-"}))
                 IN <<[line |-> i, key |-> Val(prefix), value |-> Trim(value)]>>
                    \o collectSystemInfoFrom(lines, i + 1)

collectSystemInfo(lines) == collectSystemInfoFrom(lines, 0)

IsSqlStart(line) == StartsWith(Trim(line), "START SQL_PROFILE_DUMP")
IsSqlEnd(line) == StartsWith(Trim(line), "END SQL_PROFILE_DUMP")
\* the body lines kept as rows when the column header is not told apart
IsSqlRowLineOrHeader(line) ==
    LET t == Trim(line)
    IN t # "" /\ ~AllIn(t, {"_", "-"})

\* the body lines collectSqlSections keeps as rows
IsSqlRowLine(line) ==
    LET t == Trim(line)
    IN t # "" /\ ~StartsWith(t, "Nr Calls") /\ ~AllIn(t, {"_", "-"})

\* the inner loop of collectSqlSections: from cursor to the END marker or the end
RECURSIVE SqlBody(_, _, _)
SqlBody(lines, cursor, rows) ==
    IF cursor >= Len(lines) THEN [cursor |-> cursor, closed |-> FALSE, endLine |-> -1, rows |-> rows]
    ELSE IF IsSqlEnd(At(lines, cursor))
         THEN [cursor |-> cursor + 1, closed |-> TRUE, endLine |-> cursor, rows |-> rows]
    ELSE SqlBody(lines, cursor + 1,
                 IF IsSqlRowLine(At(lines, cursor))
                 THEN Append(rows, [line |-> cursor, text |-> At(lines, cursor)])
                 ELSE rows)

\* the end of an unterminated dump as cursor, one past the last scanned line
SqlOpenEndPastEof(line, cursor) == Max(line, cursor)

\* the end of an unterminated dump: Math.max(section.line, cursor - 1)
SqlOpenEnd(line, cursor) == Max(line, cursor - 1)

RECURSIVE collectSqlSectionsFrom(_, _)
collectSqlSectionsFrom(lines, index) ==
    IF index >= Len(lines) THEN <<>>
    ELSE IF ~IsSqlStart(At(lines, index)) THEN collectSqlSectionsFrom(lines, index + 1)
    ELSE LET body == SqlBody(lines, index + 1, <<>>)
             section == [line |-> index,
                         endLine |-> IF body.closed THEN body.endLine
                                     ELSE SqlOpenEnd(index, body.cursor),
                         rows |-> body.rows]
         IN <<section>> \o collectSqlSectionsFrom(lines, body.cursor)

collectSqlSections(lines) == collectSqlSectionsFrom(lines, 0)

(***************************************************************************)
(* Regular-expression steps.  A position is an offset into the string, or  *)
(* -1 once the match has failed.                                           *)
(***************************************************************************)
\* a literal
Lit(s, p, lit) == IF p >= 0 /\ StartsWithAt(s, lit, p) THEN p + Len(lit) ELSE -1
\* a literal under the i flag
LitI(s, p, lit) ==
    IF p >= 0 /\ p + Len(lit) <= Len(s)
       /\ ToUpperCase(Slice(s, p, p + Len(lit))) = ToUpperCase(lit)
    THEN p + Len(lit) ELSE -1
\* cls*  and  cls+  (greedy; no later step of the patterns below can take a cls character)
Star(s, p, cls) == IF p < 0 THEN -1 ELSE SkipWhile(s, p, cls)
Plus(s, p, cls) == IF p >= 0 /\ SkipWhile(s, p, cls) > p THEN SkipWhile(s, p, cls) ELSE -1
\* cls{n}
Exactly(s, p, cls, n) ==
    IF p >= 0 /\ p + n <= Len(s) /\ \A j \in p .. (p + n - 1) : CharAt(s, j) \in cls
    THEN p + n ELSE -1
\* the offset of the first character at or after i that is in cls (Len(s) if none)
SkipUntil(s, i, cls) ==
    IF i >= Len(s) THEN i
    ELSE CHOOSE k \in i .. Len(s) :
            /\ k = Len(s) \/ CharAt(s, k) \in cls
            /\ \A j \in i .. (k - 1) : CharAt(s, j) \notin cls
\* [^cls]+
PlusNot(s, p, cls) == IF p >= 0 /\ SkipUntil(s, p, cls) > p THEN SkipUntil(s, p, cls) ELSE -1
\* whether "." matches every character of s[a, b)
AllDot(s, a, b) == SkipUntil(s, a, {"\n", "\r"}) >= b
\* \b at p: exactly one side is a word character
WordChars == Letters \cup Digits \cup {"_"}
IsWordAt(s, i) == i >= 0 /\ i < Len(s) /\ CharAt(s, i) \in WordChars
WordBoundary(s, p) == IF p >= 0 /\ IsWordAt(s, p - 1) # IsWordAt(s, p) THEN p ELSE -1
\* (?:\.[0-9]+)? after digits that ended at p
WithFraction(s, p) ==
    IF Plus(s, Lit(s, p, "."), Digits) >= 0 THEN Plus(s, Lit(s, p, "."), Digits) ELSE p

\* s.split(/\s+/) of a trimmed, non-empty string
RECURSIVE SplitOnSpaces(_)
SplitOnSpaces(s) ==
    LET e == SkipUntil(s, 0, WhiteSpace)
    IN IF e >= Len(s) THEN <<s>>
       ELSE <<Slice(s, 0, e)>> \o SplitOnSpaces(SliceFrom(s, SkipWhile(s, e, WhiteSpace)))

\* whether a run of two or more white-space characters starts at k
IsGap(s, k) == k + 1 < Len(s) /\ CharAt(s, k) \in WhiteSpace /\ CharAt(s, k + 1) \in WhiteSpace
\* the start of the first run of two or more white-space characters at or after i, or -1
FindGap(s, i) ==
    IF \E k \in i .. (Len(s) - 2) : IsGap(s, k)
    THEN CHOOSE k \in i .. (Len(s) - 2) : IsGap(s, k) /\ \A j \in i .. (k - 1) : ~IsGap(s, j)
    ELSE -1

\* s.split(/\s{2,}/)
RECURSIVE SplitOnGaps(_)
SplitOnGaps(s) ==
    LET g == FindGap(s, 0)
    IN IF g < 0 THEN <<s>>
       ELSE <<Slice(s, 0, g)>> \o SplitOnGaps(SliceFrom(s, SkipWhile(s, g, WhiteSpace)))

\* a.map((x) => x.trim()).filter(Boolean)
RECURSIVE TrimAndDropEmpty(_)
TrimAndDropEmpty(a) ==
    IF a = <<>> THEN <<>>
    ELSE (IF Trim(Head(a)) = "" THEN <<>> ELSE <<Trim(Head(a))>>) \o TrimAndDropEmpty(Tail(a))

\* a.slice(k).join(" ")
RECURSIVE JoinFrom(_, _)
JoinFrom(a, k) ==
    IF k >= Len(a) THEN ""
    ELSE IF k = Len(a) - 1 THEN At(a, k)
    ELSE At(a, k) \o " " \o JoinFrom(a, k + 1)

(***************************************************************************)
(* Number(text) is not NaN, for a trimmed, non-empty text                  *)
(* (ECMAScript StringNumericLiteral).                                      *)
(***************************************************************************)
HexDigits == Digits \cup {"a", "b", "c", "d", "e", "f", "A", "B", "C", "D", "E", "F"}

IsUnsignedDecimal(u) ==
    \/ u = "Infinity"
    \/ LET a == SkipWhile(u, 0, Digits)
           hasDot == a < Len(u) /\ CharAt(u, a) = "."
           m == IF hasDot THEN SkipWhile(u, a + 1, Digits) ELSE a
           hasExp == m < Len(u) /\ CharAt(u, m) \in {"e", "E"}
           q == IF m + 1 < Len(u) /\ CharAt(u, m + 1) \in {"+", "-"} THEN m + 2 ELSE m + 1
       IN /\ a > 0 \/ (hasDot /\ m > a + 1)
          /\ IF hasExp THEN SkipWhile(u, q, Digits) > q /\ SkipWhile(u, q, Digits) = Len(u)
             ELSE m = Len(u)

IsNonDecimalInteger(s) ==
    /\ Len(s) >= 3
    /\ \/ Slice(s, 0, 2) \in {"0x", "0X"} /\ AllIn(SliceFrom(s, 2), HexDigits)
       \/ Slice(s, 0, 2) \in {"0o", "0O"} /\ AllIn(SliceFrom(s, 2), {"0", "1", "2", "3", "4", "5", "6", "7"})
       \/ Slice(s, 0, 2) \in {"0b", "0B"} /\ AllIn(SliceFrom(s, 2), {"0", "1"})

IsJsNumber(s) ==
    \/ IsUnsignedDecimal(IF s # "" /\ CharAt(s, 0) \in {"+", "-"} THEN SliceFrom(s, 1) ELSE s)
    \/ IsNonDecimalInteger(s)

(***************************************************************************)
(* Journal sections.                                                       *)
(***************************************************************************)
\* the patterns table with a generic pattern that ends on no boundary
JournalPatternsUnbounded ==
    <<[type |-> "allFunctions", start |-> "START JOURNALLED_TIMES_IN_ALL_FUNCTIONS",
       end |-> "END JOURNALLED_TIMES_IN_ALL_FUNCTIONS", bare |-> FALSE],
      [type |-> "topLevel", start |-> "START JOURNALLED_TIMES_IN_TOP_LEVEL_FUNCTIONS",
       end |-> "END JOURNALLED_TIMES_IN_TOP_LEVEL_FUNCTIONS", bare |-> FALSE],
      [type |-> "summary", start |-> "START JOURNALLED_TIMES",
       end |-> "END JOURNALLED_TIMES", bare |-> FALSE]>>

\* the patterns table of collectJournalSections, in its order
JournalPatterns ==
    <<[type |-> "allFunctions", start |-> "START JOURNALLED_TIMES_IN_ALL_FUNCTIONS",
       end |-> "END JOURNALLED_TIMES_IN_ALL_FUNCTIONS", bare |-> FALSE],
      [type |-> "topLevel", start |-> "START JOURNALLED_TIMES_IN_TOP_LEVEL_FUNCTIONS",
       end |-> "END JOURNALLED_TIMES_IN_TOP_LEVEL_FUNCTIONS", bare |-> FALSE],
      [type |-> "summary", start |-> "START JOURNALLED_TIMES",
       end |-> "END JOURNALLED_TIMES", bare |-> TRUE]>>

\* /^MARKER/i for every pattern, the bare one too
MarkerTestPrefix(trimmed, marker, bare) == LitI(trimmed, 0, marker) >= 0

\* /^MARKER/i, or /^MARKER(?:\s|$)/i for the bare pattern, on a trimmed line
MarkerTest(trimmed, marker, bare) ==
    LET e == LitI(trimmed, 0, marker)
    IN /\ e >= 0
       /\ bare => (e = Len(trimmed) \/ CharAt(trimmed, e) \in WhiteSpace)

\* patterns.find((item) => item.start.test(trimmed)), from the k-th pattern on
RECURSIVE FindJournalPattern(_, _)
FindJournalPattern(trimmed, k) ==
    IF k > Len(JournalPatterns) THEN Null
    ELSE IF MarkerTest(trimmed, JournalPatterns[k].start, JournalPatterns[k].bare)
         THEN Some(JournalPatterns[k])
    ELSE FindJournalPattern(trimmed, k + 1)

\* the cursor loop: the offset of the first END line of the pattern, or Len(lines)
RECURSIVE JournalEndCursor(_, _, _)
JournalEndCursor(lines, cursor, pattern) ==
    IF cursor >= Len(lines) THEN Len(lines)
    ELSE IF MarkerTest(Trim(At(lines, cursor)), pattern.end, pattern.bare) THEN cursor
    ELSE JournalEndCursor(lines, cursor + 1, pattern)

\* the row of a "@*" line without the test of Number(percent)
JournalRowAnyPercent(i, raw, segments) ==
    IF segments = <<>> THEN <<>>
    ELSE <<[line |-> i, text |-> raw, percent |-> Some(At(segments, 0)),
            functionName |-> At(segments, Len(segments) - 1)]>>

\* the row collectJournalRows builds from the segments of a "@*" line, if any
JournalRow(i, raw, segments) ==
    LET seg(k) == IF k < Len(segments) THEN Some(At(segments, k)) ELSE Null
        functionName == Trim(IF Len(segments) > 6 THEN JoinFrom(segments, 6)
                             ELSE At(segments, Len(segments) - 1))
    IN IF segments # <<>> /\ IsJsNumber(At(segments, 0)) /\ functionName # ""
       THEN <<[line |-> i, text |-> raw, percent |-> seg(0), totalElapsed |-> seg(1),
               totalCpu |-> seg(2), dbTrips |-> seg(3), callCount |-> seg(4),
               average |-> seg(5), functionName |-> functionName]>>
       ELSE <<>>

RECURSIVE collectJournalRowsFrom(_, _, _)
collectJournalRowsFrom(lines, i, end) ==
    IF i > end THEN <<>>
    ELSE LET trimmed == Trim(At(lines, i))
         IN (IF StartsWith(trimmed, "@*")
             THEN JournalRow(i, At(lines, i),
                      TrimAndDropEmpty(SplitOnGaps(
                          SliceFrom(trimmed, SkipWhile(trimmed, 2, WhiteSpace)))))
             ELSE <<>>)
            \o collectJournalRowsFrom(lines, i + 1, end)

collectJournalRows(lines, start, end) == collectJournalRowsFrom(lines, start, end)

\* the summaryLines loop: j from i + 1 to Math.min(endLine, i + 8), at most three lines
RECURSIVE JournalSummaryLines(_, _, _, _)
JournalSummaryLines(lines, j, last, acc) ==
    IF j > last \/ Len(acc) >= 3 THEN acc
    ELSE LET candidate == Trim(At(lines, j))
         IN JournalSummaryLines(lines, j + 1, last,
                IF candidate = "" \/ StartsWith(candidate, "@*") \/ StartsWith(candidate, "START ")
                THEN acc ELSE Append(acc, candidate))

\* the section of a START line i, with the cursor where its loop stopped
JournalSection(lines, i, pattern, cursor) ==
    LET endLine == IF cursor = Len(lines) THEN Max(i, Len(lines) - 1) ELSE cursor
    IN [type |-> pattern.type, line |-> i, endLine |-> endLine,
        rows |-> IF pattern.type = "summary" THEN <<>>
                 ELSE collectJournalRows(lines, i + 1, endLine - 1),
        summary |-> Trim(JoinFrom(
                        JournalSummaryLines(lines, i + 1, Min(endLine, i + 8), <<>>), 0))]

RECURSIVE collectJournalSectionsFrom(_, _)
collectJournalSectionsFrom(lines, i) ==
    IF i >= Len(lines) THEN <<>>
    ELSE LET trimmed == Trim(At(lines, i))
             found == IF StartsWith(trimmed, "START JOURNALLED_TIMES")
                      THEN FindJournalPattern(trimmed, 1) ELSE Null
         IN (IF IsNull(found) THEN <<>>
             ELSE <<JournalSection(lines, i, Val(found),
                                   JournalEndCursor(lines, i + 1, Val(found)))>>)
            \o collectJournalSectionsFrom(lines, i + 1)

collectJournalSections(lines) == collectJournalSectionsFrom(lines, 0)

(***************************************************************************)
(* Journal hierarchy traces.                                               *)
(***************************************************************************)
DigitValue == [c \in Digits |->
    CASE c = "0" -> 0 [] c = "1" -> 1 [] c = "2" -> 2 [] c = "3" -> 3 [] c = "4" -> 4
      [] c = "5" -> 5 [] c = "6" -> 6 [] c = "7" -> 7 [] c = "8" -> 8 [] OTHER -> 9]

\* Number(text) for a text of decimal digits
RECURSIVE DigitsToNumber(_, _)
DigitsToNumber(text, acc) ==
    IF text = "" THEN acc
    ELSE DigitsToNumber(SliceFrom(text, 1), acc * 10 + DigitValue[CharAt(text, 0)])

\* Number(text) for digits with an optional fraction: the whole part and the
\* fraction digits that count
DecimalToNumber(text) ==
    LET dot == SkipUntil(text, 0, {"."})
        fraction == IF dot < Len(text) THEN SliceFrom(text, dot + 1) ELSE ""
    IN [whole |-> DigitsToNumber(Slice(text, 0, dot), 0),
        fraction |-> Slice(fraction, 0, SkipBack(fraction, Len(fraction), {"0"}))]

\* rowRegex: six numeric columns (the third may have a fraction), then the routine
RECURSIVE TraceRowOffsets(_, _)
TraceRowOffsets(current, at) ==
    LET step == Len(at)
        next ==
            CASE step = 0 -> Star(current, 0, WhiteSpace)
              [] step = 5 -> WithFraction(current, Plus(current, at[5], Digits))
              [] step \in {1, 3, 7, 9, 11} -> Plus(current, at[step], Digits)
              [] OTHER -> Plus(current, at[step], WhiteSpace)
    IN IF step = 13 THEN at
       ELSE IF next < 0 THEN <<>>
       ELSE TraceRowOffsets(current, Append(at, next))

\* the seven groups of a match whose runs were at these offsets
TraceRowCaptures(current, at) ==
    IF at = <<>> \/ ~AllDot(current, at[13], Len(current)) THEN Null
    ELSE Some(<<Slice(current, at[1], at[2]), Slice(current, at[3], at[4]),
                Slice(current, at[5], at[6]), Slice(current, at[7], at[8]),
                Slice(current, at[9], at[10]), Slice(current, at[11], at[12]),
                SliceFrom(current, at[13])>>)

TraceRowMatch(current) == TraceRowCaptures(current, TraceRowOffsets(current, <<>>))

IsTraceStart(trimmed) == WordBoundary(trimmed, LitI(trimmed, 0, "START JOURNAL_HIERARCHY_TRACE")) >= 0
\* /^END JOURNAL_HIERARCHY_TRACE/i, without the word boundary
IsTraceEndPrefix(trimmed) == LitI(trimmed, 0, "END JOURNAL_HIERARCHY_TRACE") >= 0
IsTraceEnd(trimmed) == WordBoundary(trimmed, LitI(trimmed, 0, "END JOURNAL_HIERARCHY_TRACE")) >= 0

\* rows with the row of a line rowRegex matched
WithTraceRow(rows, cursor, current, match) ==
    IF IsNull(match) THEN rows
    ELSE Append(rows,
            [line |-> cursor,
             totalPercent |-> DigitsToNumber(Val(match)[1], 0),
             parentPercent |-> DigitsToNumber(Val(match)[2], 0),
             time |-> DecimalToNumber(Val(match)[3]),
             dbTrips |-> DigitsToNumber(Val(match)[4], 0),
             callCount |-> DigitsToNumber(Val(match)[5], 0),
             calls |-> DigitsToNumber(Val(match)[5], 0),
             depth |-> DigitsToNumber(Val(match)[6], 0),
             routine |-> Trim(Val(match)[7]),
             raw |-> current,
             text |-> Trim(current)])

\* the cursor loop of collectJournalHierarchyTraces
RECURSIVE TraceBody(_, _, _, _)
TraceBody(lines, cursor, header, rows) ==
    IF cursor >= Len(lines) THEN [endLine |-> Len(lines) - 1, header |-> header, rows |-> rows]
    ELSE LET currentTrimmed == Trim(At(lines, cursor))
         IN IF IsTraceEnd(currentTrimmed)
            THEN [endLine |-> cursor, header |-> header, rows |-> rows]
            ELSE IF IsNull(header) /\ StartsWith(currentTrimmed, "%Total")
            THEN TraceBody(lines, cursor + 1, Some(currentTrimmed), rows)
            ELSE TraceBody(lines, cursor + 1, header,
                    WithTraceRow(rows, cursor, At(lines, cursor),
                                 TraceRowMatch(At(lines, cursor))))

\* the section of a START line, with what its cursor loop found
Trace(index, trimmed, body) ==
    LET rest == Trim(SliceFrom(trimmed,
                        Star(trimmed, LitI(trimmed, 0, "START JOURNAL_HIERARCHY_TRACE"), WhiteSpace)))
    IN [line |-> index, endLine |-> body.endLine,
        version |-> IF rest = "" THEN Null ELSE Some(rest),
        header |-> body.header, rows |-> body.rows]

\* sections.push(...); index = Math.max(index, endLine), and the loop's index += 1
WithTrace(sections, trace) ==
    [index |-> Max(trace.line, trace.endLine) + 1, sections |-> Append(sections, trace)]

RECURSIVE collectJournalHierarchyTracesFrom(_, _)
collectJournalHierarchyTracesFrom(lines, state) ==
    IF state.index >= Len(lines) THEN state.sections
    ELSE IF ~IsTraceStart(Trim(At(lines, state.index)))
    THEN collectJournalHierarchyTracesFrom(lines, [state EXCEPT !.index = @ + 1])
    ELSE collectJournalHierarchyTracesFrom(lines,
            WithTrace(state.sections,
                      Trace(state.index, Trim(At(lines, state.index)),
                            TraceBody(lines, state.index + 1, Null, <<>>))))

collectJournalHierarchyTraces(lines) ==
    collectJournalHierarchyTracesFrom(lines, [index |-> 0, sections |-> <<>>])

(***************************************************************************)
(* Access checks and workflow handlers.                                    *)
(***************************************************************************)
\* the access-check regex on a raw line: AM_check_priv (MODE) on TARGET, anchored
\* at 0: the offsets <<of the mode, after it, of the target, after it>>, or <<>>
AccessCheckOffsets(raw) ==
    LET a == Lit(raw, Star(raw, LitI(raw, 0, "AM_check_priv"), WhiteSpace), "(")
        b == PlusNot(raw, a, {")"})
        c == Star(raw, LitI(raw, Star(raw, Lit(raw, b, ")"), WhiteSpace), "on"), WhiteSpace)
    IN IF PlusNot(raw, c, WhiteSpace) >= 0 THEN <<a, b, c, PlusNot(raw, c, WhiteSpace)>> ELSE <<>>

\* the entry of a line the regex matched at these offsets
AccessCheck(line, raw, at) ==
    IF at = <<>> THEN <<>>
    ELSE <<[line |-> line, raw |-> raw, mode |-> Trim(Slice(raw, at[1], at[2])),
            target |-> Trim(Slice(raw, at[3], at[4]))]>>

RECURSIVE collectAccessChecksFrom(_, _)
collectAccessChecksFrom(lines, line) ==
    IF line >= Len(lines) THEN <<>>
    ELSE AccessCheck(line, At(lines, line), AccessCheckOffsets(At(lines, line)))
         \o collectAccessChecksFrom(lines, line + 1)

collectAccessChecks(lines) == collectAccessChecksFrom(lines, 0)

\* the shared head of enterPattern and leavePattern, ARROW WORD Function "NAME":
\* the offsets <<of the name, after it>>, or <<>>
FunctionMarkerOffsets(raw, arrow, word) ==
    LET a == Lit(raw, Plus(raw, LitI(raw, Plus(raw, LitI(raw, Plus(raw, Lit(raw, 0, arrow),
                    WhiteSpace), word), WhiteSpace), "Function"), WhiteSpace), "\"")
    IN IF Lit(raw, PlusNot(raw, a, {"\""}), "\"") >= 0
       THEN <<a, PlusNot(raw, a, {"\""})>> ELSE <<>>

\* the offset of the first "])" at or after p with only "." characters before it, or -1
FindFileEnd(raw, p) ==
    IF IndexOf(raw, "])", p) >= 0 /\ AllDot(raw, p, IndexOf(raw, "])", p))
    THEN IndexOf(raw, "])", p) ELSE -1

\* the rest of enterPattern after the name: the offset of the file path, or -1
EnterFileStart(raw, head) ==
    IF head = <<>> THEN -1
    ELSE Lit(raw, Plus(raw, LitI(raw, Star(raw, Lit(raw, Plus(raw, head[2] + 1,
                WhiteSpace), "{"), WhiteSpace), "(File"), WhiteSpace), "[")

\* leavePattern.test(raw)
IsLeaveLine(raw) == FunctionMarkerOffsets(raw, "<--", "LEAVE") # <<>>

\* the cursor loop of collectWorkflowHandlers: the first LEAVE line after index
RECURSIVE FindLeave(_, _, _)
FindLeave(lines, cursor, index) ==
    IF cursor >= Len(lines) THEN index
    ELSE IF IsLeaveLine(At(lines, cursor)) THEN cursor
    ELSE FindLeave(lines, cursor + 1, index)

\* the entry of a line enterPattern matched: head holds the offsets of the name,
\* file the offset of the file path
WorkflowHandler(lines, index, raw, head, file) ==
    IF file < 0 \/ FindFileEnd(raw, file) < 0 THEN <<>>
    ELSE <<[line |-> index, endLine |-> FindLeave(lines, index + 1, index),
            functionName |-> Trim(Slice(raw, head[1], head[2])),
            filePath |-> Trim(Slice(raw, file, FindFileEnd(raw, file))), raw |-> raw]>>

\* the first match group of enterPattern and the offset of the second
EnterHead(raw) == FunctionMarkerOffsets(raw, "-->", "ENTER")

RECURSIVE collectWorkflowHandlersFrom(_, _)
collectWorkflowHandlersFrom(lines, index) ==
    IF index >= Len(lines) THEN <<>>
    ELSE WorkflowHandler(lines, index, At(lines, index), EnterHead(At(lines, index)),
                         EnterFileStart(At(lines, index), EnterHead(At(lines, index))))
         \o collectWorkflowHandlersFrom(lines, index + 1)

collectWorkflowHandlers(lines) == collectWorkflowHandlersFrom(lines, 0)

(***************************************************************************)
(* Inline SQL found on raw lines.                                          *)
(***************************************************************************)
RECURSIVE collectInlineSqlLinesFrom(_, _)
collectInlineSqlLinesFrom(lines, i) ==
    IF i >= Len(lines) THEN <<>>
    ELSE LET original == At(lines, i)
             trimmed == Trim(original)
         IN (IF /\ trimmed # ""
                /\ ~StartsWith(trimmed, "START SQL_PROFILE_DUMP")
                /\ ~StartsWith(trimmed, "END SQL_PROFILE_DUMP")
                /\ isInlineSqlText(Some(trimmed))
             THEN <<[line |-> i, text |-> original]>> ELSE <<>>)
            \o collectInlineSqlLinesFrom(lines, i + 1)

collectInlineSqlLines(lines) == collectInlineSqlLinesFrom(lines, 0)

(***************************************************************************)
(* Structured log lines: LOG_LINE_REGEX and collectLogLines.           *)
(***************************************************************************)
\* the first alternative of (INFO|DEBUG|NOTE|WARN|ERROR|FATAL) the line starts with
LevelMatch(lineText, levels) ==
    IF \E k \in 1 .. Len(levels) : StartsWith(lineText, levels[k])
    THEN Some(levels[CHOOSE k \in 1 .. Len(levels) :
                        /\ StartsWith(lineText, levels[k])
                        /\ \A j \in 1 .. (k - 1) : ~StartsWith(lineText, levels[j])])
    ELSE Null

\* the widths of the digit groups of YYYY/MM/DD-HH:MM:SS and what follows each
TimestampDigits == <<4, 2, 2, 2, 2, 2>>
TimestampSeparators == <<"/", "/", "-", ":", ":", "">>

\* the groups from the k-th on, at p: the offset after them, or -1
RECURSIVE TimestampGroups(_, _, _)
TimestampGroups(s, p, k) ==
    IF p < 0 \/ k > Len(TimestampDigits) THEN p
    ELSE TimestampGroups(s, Lit(s, Exactly(s, p, Digits, TimestampDigits[k]),
                                TimestampSeparators[k]), k + 1)

\* YYYY/MM/DD-HH:MM:SS with an optional fraction, at p: the offset after it, or -1
TimestampEnd(s, p) == WithFraction(s, TimestampGroups(s, p, 1))

\* whether \s*-\s*(.*)$ matches from e on
SeparatorAndMessageAt(s, e) ==
    /\ SkipWhile(s, e, WhiteSpace) < Len(s)
    /\ CharAt(s, SkipWhile(s, e, WhiteSpace)) = "-"
    /\ AllDot(s, SkipWhile(s, SkipWhile(s, e, WhiteSpace) + 1, WhiteSpace), Len(s))

\* whether (.+?) can span s[s0, e) with the rest of the line matching after it
IsIdEnd(s, s0, e) == AllDot(s, s0, e) /\ SeparatorAndMessageAt(s, e)

\* (.+?) from s0: the shortest end e > s0 after which \s*-\s* and the rest of the
\* line match, or -1
LazyIdEnd(s, s0) ==
    IF \E e \in (s0 + 1) .. Len(s) : IsIdEnd(s, s0, e)
    THEN CHOOSE e \in (s0 + 1) .. Len(s) :
            IsIdEnd(s, s0, e) /\ \A f \in (s0 + 1) .. (e - 1) : ~IsIdEnd(s, s0, f)
    ELSE -1

\* \s* before the id gives white space back, from k down to p, until the rest matches
RECURSIVE IdStartFrom(_, _, _)
IdStartFrom(s, p, k) ==
    IF k < p THEN -1
    ELSE IF LazyIdEnd(s, k) >= 0 THEN k
    ELSE IdStartFrom(s, p, k - 1)

\* The offsets the regex engine passes in a match of LOG_LINE_REGEX at offset 0,
\* one per step: <<after the level, at the timestamp, after the timestamp, after
\* the dash that follows UTC, at the id, after the id, at the message>>; <<>>
\* when the line does not match.
RECURSIVE LogLineOffsets(_, _)
LogLineOffsets(lineText, at) ==
    LET step == Len(at)
        level == LevelMatch(lineText, LOG_LEVELS)
        next ==
            CASE step = 0 -> IF IsNull(level) THEN -1 ELSE Len(Val(level))
              [] step = 1 -> Star(lineText, Lit(lineText, Star(lineText, at[1], WhiteSpace), "-"),
                                  WhiteSpace)
              [] step = 2 -> TimestampEnd(lineText, at[2])
              [] step = 3 -> Lit(lineText, Star(lineText, Lit(lineText,
                                 Plus(lineText, at[3], WhiteSpace), "UTC"), WhiteSpace), "-")
              [] step = 4 -> IdStartFrom(lineText, at[4], SkipWhile(lineText, at[4], WhiteSpace))
              [] step = 5 -> LazyIdEnd(lineText, at[5])
              [] step = 6 -> SkipWhile(lineText, SkipWhile(lineText, at[6], WhiteSpace) + 1,
                                       WhiteSpace)
    IN IF step = 7 THEN at
       ELSE IF next < 0 THEN <<>>
       ELSE LogLineOffsets(lineText, Append(at, next))

\* the captures of a match whose steps were at these offsets, and "at", the
\* offsets at which the engine captured them
LogLineCaptures(lineText, at) ==
    IF at = <<>> THEN Null
    ELSE Some([level |-> Slice(lineText, 0, at[1]),
               timestamp |-> Slice(lineText, at[2], at[3]),
               idRaw |-> Slice(lineText, at[5], at[6]),
               messageRaw |-> SliceFrom(lineText, at[7]),
               at |-> [timestamp |-> at[2], idRaw |-> at[5], messageRaw |-> at[7]],
               end |-> Len(lineText)])

\* the match of LOG_LINE_REGEX at offset 0 of a line
LogLineMatch(lineText) == LogLineCaptures(lineText, LogLineOffsets(lineText, <<>>))

\* the flag that would make the regex global
LogLineRegexFlagsGlobal == "g"
\* the flags of LOG_LINE_REGEX: none
LogLineRegexFlags == ""

\* What exec leaves behind.  A regex without the g flag leaves lastIndex alone; a
\* global one sets it to the end of a match and resets it on a failure.
ExecResult(match, index) ==
    [match |-> match,
     lastIndex |-> IF LogLineRegexFlags # "g" THEN index
                   ELSE IF IsNull(match) THEN 0 ELSE Val(match).end]

\* LOG_LINE_REGEX.exec(lineText) with the regex's lastIndex before the call:
\* the match and the lastIndex after it.  A regex without the g flag starts at
\* 0; a global one starts at lastIndex, where ^ matches only if it is 0.
LogLineRegexExec(lineText, index) ==
    ExecResult(IF LogLineRegexFlags = "g" /\ index # 0 THEN Null ELSE LogLineMatch(lineText),
               index)

\* x ?? 0
OrZero(x) == IF IsNull(x) THEN 0 ELSE Val(x)
\* x >= 0 ? x : null
OrNull(x) == IF x >= 0 THEN Some(x) ELSE Null

\* value ? lineText.indexOf(raw, from) : -1, without its guard
LocateRawUnguarded(lineText, raw, value, from) == IndexOf(lineText, raw, from)

\* value ? lineText.indexOf(raw, from) : -1
LocateRaw(lineText, raw, value, from) ==
    IF value # "" THEN IndexOf(lineText, raw, from) ELSE -1

\* idRawIndex, idStart and idEnd (messageRawIndex, messageStart and messageEnd)
\* of a capture raw, searched from an offset
FieldSpan(lineText, raw, rawIndex) ==
    [rawIndex |-> rawIndex,
     start |-> IF rawIndex >= 0 THEN Some(rawIndex + (Len(raw) - Len(TrimStart(raw)))) ELSE Null,
     end |-> IF rawIndex >= 0
             THEN Some(rawIndex + (Len(raw) - Len(TrimStart(raw))) + Len(Trim(raw))) ELSE Null]

\* the fields, other than line, of the LogLine collectLogLines builds from a match
LogLineFields(lineText, match) ==
    LET levelStart == IndexOf(lineText, match.level, 0)
        levelEnd == IF levelStart >= 0 THEN levelStart + Len(match.level) ELSE Len(match.level)
        timestampStart == IF match.timestamp # ""
                          THEN IndexOf(lineText, match.timestamp, levelEnd) ELSE -1
        timestampEnd == IF timestampStart >= 0 THEN Some(timestampStart + Len(match.timestamp))
                        ELSE Null
        idValue == Trim(match.idRaw)
        id == FieldSpan(lineText, match.idRaw,
                        LocateRaw(lineText, match.idRaw, idValue, OrZero(timestampEnd)))
        messageValue == Trim(match.messageRaw)
        message == FieldSpan(lineText, match.messageRaw,
                        LocateRaw(lineText, match.messageRaw, messageValue,
                                  IF id.rawIndex >= 0 THEN id.rawIndex + Len(match.idRaw)
                                  ELSE OrZero(timestampEnd)))
    IN [level |-> match.level,
        timestamp |-> match.timestamp,
        id |-> idValue,
        message |-> messageValue,
        levelStart |-> IF levelStart >= 0 THEN levelStart ELSE 0,
        levelEnd |-> levelEnd,
        timestampStart |-> OrNull(timestampStart),
        timestampEnd |-> timestampEnd,
        idStart |-> id.start,
        idEnd |-> id.end,
        messageStart |-> message.start,
        messageEnd |-> message.end,
        isInlineSql |-> isInlineSqlText(Some(messageValue))]

\* the entry with the line numbered from one
LogLineEntryOneBased(i, lineText, match) == [line |-> i + 1] @@ LogLineFields(lineText, match)

\* entries.push({ line: i, ... })
LogLineEntry(i, lineText, match) == [line |-> i] @@ LogLineFields(lineText, match)

\* collectLogLines from line i on, with the regex's lastIndex threaded through:
\* a line that exec did not match is passed over, one it matched gives an entry
RECURSIVE collectLogLinesFrom(_, _, _, _)
RECURSIVE WithLogLine(_, _, _, _)
WithLogLine(lines, i, entries, exec) ==
    IF IsNull(exec.match)
    THEN collectLogLinesFrom(lines, i + 1, entries, exec.lastIndex)
    ELSE collectLogLinesFrom(lines, i + 1,
            Append(entries, LogLineEntry(i, At(lines, i), Val(exec.match))), exec.lastIndex)

collectLogLinesFrom(lines, i, entries, index) ==
    IF i >= Len(lines) THEN [entries |-> entries, lastIndex |-> index]
    ELSE WithLogLine(lines, i, entries, LogLineRegexExec(At(lines, i), index))

collectLogLines(lines, index) == collectLogLinesFrom(lines, 0, <<>>, index)

(***************************************************************************)
(* The grammar pass: TeamcenterLog.g4 under ANTLR 4.                   *)
(*                                                                         *)
(* The lexer takes the longest match and, among equals, the rule written   *)
(* first, the literals of the parser rules coming before the named lexer   *)
(* rules.  MESSAGE matches any run of characters up to the end of the line *)
(* and is written before every rule but LEVEL, TIMESTAMP and ID, so a line *)
(* is one token followed by NEWLINE: a literal when the whole line is that *)
(* literal, LEVEL when it is a level word, a text token otherwise; an      *)
(* empty line is a bare NEWLINE.  The last line has no NEWLINE after it.   *)
(* No WS, KEY, NR or HIERARCHY_PREFIX token is ever produced, so envLine,  *)
(* dllLine, sqlRow, journalLine, logLine and truncated never match past    *)
(* their first token.                                                      *)
(*                                                                         *)
(* The parser predicts the alternative of logFile with unbounded           *)
(* lookahead.  otherLine matches any line, so on a first token that starts *)
(* another rule the lookahead runs on until that rule fails (otherLine is  *)
(* then taken), or the two alternatives reach the same parser states (the  *)
(* rule written first is then taken), or the input ends.  A rule of fixed  *)
(* lines meets otherLine as soon as it is complete.  A rule with a         *)
(* wildcard keeps a state of its own to the end of the input, where it     *)
(* wins if it is complete and the input ends in a NEWLINE.  When the input *)
(* does not end in a NEWLINE and a rule is still alive at EOF, no          *)
(* alternative reaches EOF: logFile gets a NoViableAltException, recovers  *)
(* by skipping to EOF and returns the contexts it has.                     *)
(***************************************************************************)
GrammarLiterals ==
    {"***", "*** system log created by", "Node Name", "Machine type", "OS", "# Processors",
     "Memory", "Total Swap", "Free  Swap", "Machine supports", "Running", "-", "UTC",
     "TC environment variables:", "=", "Versions of DLLs are:", "=====================",
     "START SQL_PROFILE_DUMP", "END SQL_PROFILE_DUMP",
     "Nr Calls Time   DB-Time Exec-Time Trips Rows  SQL Query",
     "______________________________________________________",
     "START JOURNALLED_TIMES", "START JOURNALLED_TIMES_IN_ALL_FUNCTIONS",
     "END JOURNALLED_TIMES_IN_ALL_FUNCTIONS", "END JOURNALLED_TIMES",
     "POM enquiries statistics:", "@@@ End of session", "(truncated", "characters)"}

\* the lexer rule LEVEL
GrammarLevels == {"INFO", "DEBUG", "NOTE", "WARN", "ERROR"}

\* the token a line is lexed to ("" for an empty line: no token before NEWLINE)
TokenOf(line) ==
    IF line = "" THEN ""
    ELSE IF line \in GrammarLiterals THEN line
    ELSE IF line \in GrammarLevels THEN "LEVEL"
    ELSE "TEXT"

\* whether EOF follows a NEWLINE (or the input is empty)
EndsInNewline(lines) == At(lines, Len(lines) - 1) = ""

\* A rule that is a fixed run of literal lines, each followed by NEWLINE, from
\* line i: "complete" with the line it stops on, "dead" when a token differs
\* before the input ends, "eof" when the input ends first.
RECURSIVE FixedRule(_, _, _, _)
FixedRule(lines, i, expected, k) ==
    IF k > Len(expected) THEN [outcome |-> "complete", stop |-> i - 1]
    ELSE IF i >= Len(lines) - 1 /\ (i >= Len(lines) \/ At(lines, i) = "" \/ At(lines, i) = expected[k])
         THEN [outcome |-> "eof", stop |-> i]
    ELSE IF At(lines, i) # expected[k] THEN [outcome |-> "dead", stop |-> i]
    ELSE FixedRule(lines, i + 1, expected, k + 1)

\* A rule of literal lines with ".*? NEWLINE" after each: every literal is found
\* on the first later line that is exactly it, whatever lies between; such a
\* rule stays alive until the input ends.
RECURSIVE WildcardRule(_, _, _, _)
WildcardRule(lines, i, expected, k) ==
    IF k > Len(expected) THEN [outcome |-> "complete", stop |-> i - 1]
    ELSE IF i >= Len(lines) - 1 THEN [outcome |-> "eof", stop |-> i]
    ELSE IF At(lines, i) = expected[k] THEN WildcardRule(lines, i + 1, expected, k + 1)
    ELSE WildcardRule(lines, i + 1, expected, k)

\* the rule of logFile a first token can start, and how far it gets from line i
RuleAttempt(lines, i) ==
    LET token == TokenOf(At(lines, i))
        fixed(rule, expected) ==
            [rule |-> rule, wildcard |-> FALSE] @@ FixedRule(lines, i, expected, 1)
        wild(rule, expected) ==
            [rule |-> rule, wildcard |-> TRUE] @@ WildcardRule(lines, i, expected, 1)
        \* a token no line can supply after the first
        never == "\n"
    IN CASE token = "***" -> wild("header", <<"***", "*** system log created by">>)
         [] token = "Node Name" -> wild("systemInfo", SYSTEM_INFO_PREFIXES)
         [] token = "LEVEL" -> fixed("logLine", <<At(lines, i), never>>)
         [] token = "TC environment variables:" -> fixed("envSection", <<token>>)
         [] token = "Versions of DLLs are:" ->
                fixed("dllSection", <<token, "=====================">>)
         [] token = "START SQL_PROFILE_DUMP" ->
                fixed("sqlDump", <<token, "Nr Calls Time   DB-Time Exec-Time Trips Rows  SQL Query",
                                   "______________________________________________________",
                                   "", "END SQL_PROFILE_DUMP">>)
         [] token \in {"START JOURNALLED_TIMES", "START JOURNALLED_TIMES_IN_ALL_FUNCTIONS"} ->
                fixed("journalSection", <<token, "END JOURNALLED_TIMES_IN_ALL_FUNCTIONS",
                                          "END JOURNALLED_TIMES">>)
         [] token = "POM enquiries statistics:" -> wild("pomStats", <<token>>)
         [] token = "@@@ End of session" -> wild("endSession", <<token>>)
         [] token = "(truncated" -> fixed("truncated", <<token, never>>)
         [] OTHER -> [rule |-> "otherLine", wildcard |-> FALSE, outcome |-> "dead", stop |-> i]

\* One turn of the loop of logFile at line state.i, where a rule was tried: the
\* rule is taken, or otherLine is, or the loop ends on the exception.  The
\* contexts are those of the tree in order, each with the lines of its start and
\* stop tokens; the otherLine contexts, which the visitor passes over, are left out.
AfterAttempt(lines, state, attempt) ==
    IF attempt.outcome = "complete" /\ (~attempt.wildcard \/ EndsInNewline(lines))
    THEN [i |-> attempt.stop + 1,
          contexts |-> Append(state.contexts,
                          [rule |-> attempt.rule, start |-> state.i, stop |-> attempt.stop])]
    ELSE IF attempt.outcome = "dead" \/ EndsInNewline(lines)
    THEN [state EXCEPT !.i = @ + 1]
    ELSE [state EXCEPT !.i = Len(lines)]

RECURSIVE LogFileFrom(_, _)
LogFileFrom(lines, state) ==
    IF state.i >= Len(lines) \/ (state.i = Len(lines) - 1 /\ At(lines, state.i) = "")
    THEN state.contexts
    ELSE LogFileFrom(lines, AfterAttempt(lines, state, RuleAttempt(lines, state.i)))

LogFile(lines) == LogFileFrom(lines, [i |-> 0, contexts |-> <<>>])

(***************************************************************************)
(* CollectingVisitor: what each visit method adds to the result.  A        *)
(* context's start.line - 1 is the index of the line of its first token.   *)
(***************************************************************************)
\* a match on the first "=" wherever it comes, as /^([^=]*)=(.*)$/ would give
EnvEntryMatchAnyKey(trimmed) == IndexOf(trimmed, "=", 0)

\* trimmed.match(/^([^=]+)=(.*)$/): the position of the first "=", which must
\* not come first, or -1
EnvEntryMatch(trimmed) ==
    LET k == IndexOf(trimmed, "=", 0)
    IN IF k >= 1 /\ AllDot(trimmed, k + 1, Len(trimmed)) THEN k ELSE -1

RECURSIVE EnvEntriesFrom(_, _, _)
EnvEntriesFrom(lines, startLine, offset) ==
    IF startLine + offset >= Len(lines) THEN <<>>
    ELSE LET raw == At(lines, startLine + offset)
             trimmed == Trim(raw)
             k == EnvEntryMatch(trimmed)
         IN IF trimmed = "" \/ k < 0 THEN <<>>
            ELSE <<[line |-> startLine + offset,
                    key |-> Trim(Slice(trimmed, 0, k)),
                    value |-> Trim(SliceFrom(trimmed, k + 1))]>>
                 \o EnvEntriesFrom(lines, startLine, offset + 1)

visitEnvSection(lines, ctx) ==
    [line |-> ctx.start, entries |-> EnvEntriesFrom(lines, ctx.start, 1)]

RECURSIVE DllEntriesFrom(_, _, _)
DllEntriesFrom(lines, startLine, offset) ==
    IF startLine + offset >= Len(lines) THEN <<>>
    ELSE LET raw == At(lines, startLine + offset)
             parts == SplitOnSpaces(Trim(raw))
         IN IF Trim(raw) = "" \/ Len(parts) < 6 THEN <<>>
            ELSE <<[line |-> startLine + offset,
                    path |-> parts[1], version |-> parts[2], address |-> parts[3],
                    size |-> parts[4], hash |-> parts[5], date |-> JoinFrom(parts, 6)]>>
                 \o DllEntriesFrom(lines, startLine, offset + 1)

visitDllSection(lines, ctx) ==
    [line |-> ctx.start, entries |-> DllEntriesFrom(lines, ctx.start, 2)]

\* no sqlRow context exists below a sqlDump, so visitSqlRow adds no row
visitSqlDump(lines, ctx) == [line |-> ctx.start, endLine |-> ctx.stop, rows |-> <<>>]

visitPomStats(lines, ctx) == [line |-> ctx.start]
visitEndSession(lines, ctx) == [line |-> ctx.start]
visitTruncated(lines, ctx) == [line |-> ctx.start]

\* the visit methods of one rule applied to the contexts of that rule, in order
RECURSIVE VisitAll(_, _, _, _)
VisitAll(lines, contexts, rule, k) ==
    IF k > Len(contexts) THEN <<>>
    ELSE (IF contexts[k].rule # rule THEN <<>>
          ELSE CASE rule = "envSection" -> <<visitEnvSection(lines, contexts[k])>>
                 [] rule = "dllSection" -> <<visitDllSection(lines, contexts[k])>>
                 [] rule = "sqlDump" -> <<visitSqlDump(lines, contexts[k])>>
                 [] rule = "pomStats" -> <<visitPomStats(lines, contexts[k])>>
                 [] rule = "endSession" -> <<visitEndSession(lines, contexts[k])>>
                 [] rule = "truncated" -> <<visitTruncated(lines, contexts[k])>>)
         \o VisitAll(lines, contexts, rule, k + 1)

(***************************************************************************)
(* parseTeamcenterLog: the merge of the two passes.                        *)
(***************************************************************************)
\* the heuristic dump that starts on a line, if any
RECURSIVE SectionAtLine(_, _, _)
SectionAtLine(sections, line, k) ==
    IF k > Len(sections) THEN Null
    ELSE IF sections[k].line = line THEN Some(sections[k])
    ELSE SectionAtLine(sections, line, k + 1)

\* result.sqlDumps.map(...): each grammar dump with the rows of the heuristic
\* dump of the same line
RECURSIVE MergeGrammarDumps(_, _, _)
MergeGrammarDumps(grammarSql, heuristicSql, k) ==
    IF k > Len(grammarSql) THEN <<>>
    ELSE LET section == grammarSql[k]
             fallback == SectionAtLine(heuristicSql, section.line, 1)
         IN <<[line |-> section.line, endLine |-> section.endLine,
               rows |-> IF ~IsNull(fallback) /\ Len(section.rows) = 0
                        THEN Val(fallback).rows ELSE section.rows]>>
            \o MergeGrammarDumps(grammarSql, heuristicSql, k + 1)

\* a merge that lets go of the heuristic dumps the grammar pass did not find
NoLeftoverDumps(grammarSql, heuristicSql, k) == <<>>

\* heuristicsByLine.values() after the deletions: the heuristic dumps no
\* grammar dump starts with
RECURSIVE LeftoverDumps(_, _, _)
LeftoverDumps(grammarSql, heuristicSql, k) ==
    IF k > Len(heuristicSql) THEN <<>>
    ELSE (IF IsNull(SectionAtLine(grammarSql, heuristicSql[k].line, 1))
          THEN <<heuristicSql[k]>> ELSE <<>>)
         \o LeftoverDumps(grammarSql, heuristicSql, k + 1)

MergeSqlDumps(grammarSql, heuristicSql) ==
    IF Len(grammarSql) > 0
    THEN MergeGrammarDumps(grammarSql, heuristicSql, 1) \o LeftoverDumps(grammarSql, heuristicSql, 1)
    ELSE heuristicSql

\* the inline SQL entries of the log lines, by line: inlineLogSet
RECURSIVE InlineLogEntries(_, _, _)
InlineLogEntries(lines, logLines, k) ==
    IF k > Len(logLines) THEN <<>>
    ELSE (IF logLines[k].isInlineSql
          THEN <<[line |-> logLines[k].line, text |-> logLines[k].message, fromLog |-> TRUE]>>
          ELSE <<>>)
         \o InlineLogEntries(lines, logLines, k + 1)

\* whether inlineLogSet has a line
RECURSIVE HasLine(_, _, _)
HasLine(entries, line, k) ==
    k <= Len(entries) /\ (entries[k].line = line \/ HasLine(entries, line, k + 1))

\* collectInlineSqlLines(lines).filter(...) mapped to entries not from the log
RECURSIVE HeuristicInline(_, _, _)
HeuristicInline(inlineLog, heuristic, k) ==
    IF k > Len(heuristic) THEN <<>>
    ELSE (IF HasLine(inlineLog, heuristic[k].line, 1) THEN <<>>
          ELSE <<[line |-> heuristic[k].line, text |-> heuristic[k].text, fromLog |-> FALSE]>>)
         \o HeuristicInline(inlineLog, heuristic, k + 1)

\* the entries left in the order they were put together
KeepOrder(entries) == entries

RECURSIVE InsertByLine(_, _)
InsertByLine(sorted, entry) ==
    IF Len(sorted) = 0 THEN <<entry>>
    ELSE IF sorted[Len(sorted)].line <= entry.line THEN Append(sorted, entry)
    ELSE Append(InsertByLine(SubSeq(sorted, 1, Len(sorted) - 1), entry), sorted[Len(sorted)])

RECURSIVE SortFrom(_, _, _)
SortFrom(entries, k, sorted) ==
    IF k > Len(entries) THEN sorted
    ELSE SortFrom(entries, k + 1, InsertByLine(sorted, entries[k]))

\* entries.sort((a, b) => (a.line ?? 0) - (b.line ?? 0)), a stable sort
SortByLine(entries) == SortFrom(entries, 1, <<>>)

\* result.inlineSqlLines
InlineSqlLines(lines, logLines) ==
    LET inlineLog == InlineLogEntries(lines, logLines, 1)
    IN SortByLine(inlineLog \o HeuristicInline(inlineLog, collectInlineSqlLines(lines), 1))

\* the values parseTeamcenterLog can be handed
IsString(value) == value.type = "string"

\* the result parseTeamcenterLog puts together from the tree of the grammar pass
\* and the scans of the lines
ParseResult(lines, contexts, logLines) ==
    [header |-> collectHeader(lines).value,
     systemInfo |-> collectSystemInfo(lines),
     envSections |-> VisitAll(lines, contexts, "envSection", 1),
     dllSections |-> VisitAll(lines, contexts, "dllSection", 1),
     sqlDumps |-> MergeSqlDumps(VisitAll(lines, contexts, "sqlDump", 1),
                                collectSqlSections(lines)),
     journalSections |-> collectJournalSections(lines),
     journalHierarchyTraces |-> collectJournalHierarchyTraces(lines),
     accessChecks |-> collectAccessChecks(lines),
     workflowHandlers |-> collectWorkflowHandlers(lines),
     pomStats |-> VisitAll(lines, contexts, "pomStats", 1),
     endSessions |-> VisitAll(lines, contexts, "endSession", 1),
     truncated |-> VisitAll(lines, contexts, "truncated", 1),
     logLines |-> logLines,
     inlineSqlLines |-> InlineSqlLines(lines, logLines),
     parseErrors |-> <<>>,
     lines |-> lines]

\* the call on a string, split into lines: whether it threw, the result, and
\* lastIndex after the call
ParseLines(lines, logLines, index) ==
    IF collectHeader(lines).threw THEN [threw |-> TRUE, value |-> Null, lastIndex |-> index]
    ELSE [threw |-> FALSE,
          value |-> Some(ParseResult(lines, LogFile(lines), logLines.entries)),
          lastIndex |-> logLines.lastIndex]

\* parseTeamcenterLog(content) with LOG_LINE_REGEX.lastIndex = index before the
\* call.  content.split is not a function unless content is a string.
parseTeamcenterLog(value, index) ==
    IF ~IsString(value) THEN [threw |-> TRUE, value |-> Null, lastIndex |-> index]
    ELSE ParseLines(SplitLines(value.text),
                    collectLogLines(SplitLines(value.text), index), index)

(***************************************************************************)
(* The parser at work: a document is put together from pieces of syslog    *)
(* text, handed to parseTeamcenterLog, and the result kept.                *)
(***************************************************************************)
\* how many pieces a document is put together from
MaxChunks == 3

\* pieces of syslog text, by the part of the parser they exercise
Chunks ==
    [log |->
        <<"INFO - 2021/11/22-10:15:30 UTC - srv.1 - SELECT a FROM t\n",
          "SELECT b FROM t\n",
          "FATAL - 2021/11/22-10:15:30.25 UTC - UTC - msg",
          "\r\n",
          "sql> UPDATE t\n">>,
     sql |->
        <<"START SQL_PROFILE_DUMP\n",
          "Nr Calls Time   DB-Time Exec-Time Trips Rows  SQL Query\n______________________________________________________\n\nEND SQL_PROFILE_DUMP\n",
          "   1     2 0.10 SELECT a\n",
          "END SQL_PROFILE_DUMP",
          "  START SQL_PROFILE_DUMP 2\n">>,
     journal |->
        <<"START JOURNALLED_TIMES_IN_ALL_FUNCTIONS\n",
          "@*  10.5  1.0  2.0  3  4  0.5  fn\n",
          "END JOURNALLED_TIMES_IN_ALL_FUNCTIONS\nEND JOURNALLED_TIMES\n",
          "START JOURNALLED_TIMES\n",
          "START JOURNAL_HIERARCHY_TRACE v2\n%Total %Parent\n 10 20 1.5 3 4 1 fn\n",
          "END JOURNAL_HIERARCHY_TRACE">>,
     sections |->
        <<"***\n*** system log created by tcserver\n",
          "Node Name   : host\nRunning\n",
          "TC environment variables:\nTC_ROOT=C:\\tc\n",
          "Versions of DLLs are:\n=====================\na.dll 13.3 7ffd 1cf 0-1 22-Nov-2021 10:15\n",
          "POM enquiries statistics:\n@@@ End of session",
          "(truncated 10 characters)\n">>,
     workflow |->
        <<"--> ENTER Function \"EPM_do\" { (File [epm.c])\n",
          "<-- LEAVE Function \"EPM_do\"\n",
          "AM_check_priv (READ) on item1\n",
          "x">>]

Families == DOMAIN Chunks

\* what a caller can hand over in place of a text
NonStrings == {"undefined", "null", "number", "object"}

Text(text) == [type |-> "string", text |-> text]

NoResult == [threw |-> FALSE, value |-> Null]

Init ==
    /\ content = Text("")
    /\ nChunks = 0
    /\ family \in Families
    /\ phase = "editing"
    /\ result = NoResult
    /\ lastIndex = 0
    /\ calls = <<>>
    /\ shape = <<>>
    /\ probe = <<>>
    /\ favorites = <<>>
    /\ chat = <<>>
    /\ view = <<>>

\* the document grows by a piece
AppendChunk(chunk) ==
    /\ phase = "editing"
    /\ IsString(content)
    /\ nChunks < MaxChunks
    /\ content' = Text(content.text \o chunk)
    /\ nChunks' = nChunks + 1
    /\ UNCHANGED <<family, phase, result, lastIndex, calls, shape, probe, chat, view, favorites>>

\* the caller has no text to hand over
HandOver(type) ==
    /\ phase = "editing"
    /\ IsString(content)
    /\ nChunks = 0
    /\ content' = [type |-> type, text |-> ""]
    /\ UNCHANGED <<nChunks, family, phase, result, lastIndex, calls, shape, probe, chat, view, favorites>>

\* parsed = parseTeamcenterLog(content)
Parse ==
    /\ phase = "editing"
    /\ LET returned == parseTeamcenterLog(content, lastIndex)
       IN /\ result' = [threw |-> returned.threw, value |-> returned.value]
          /\ lastIndex' = returned.lastIndex
    /\ phase' = "parsed"
    /\ UNCHANGED <<content, nChunks, family, calls, shape, probe, chat, view, favorites>>

Next ==
    \/ \E k \in 1 .. Len(Chunks[family]) : AppendChunk(Chunks[family][k])
    \/ \E type \in NonStrings : HandOver(type)
    \/ Parse

Spec == Init /\ [][Next]_vars


(***************************************************************************)
(* The parser called again and again: every call of a session goes through *)
(* the same module, with the same LOG_LINE_REGEX object.                   *)
(***************************************************************************)
MaxCalls == 3

\* the texts of the calls
CallTexts ==
    <<"",
      "INFO - 2021/11/22-10:15:30 UTC - srv.1 - SELECT a FROM t",
      "FATAL - 2021/11/22-10:15:30 UTC - a - b\nINFO - 2021/11/22-10:15:31 UTC - c - d\nx",
      "START SQL_PROFILE_DUMP\n   1 2 SELECT a\n",
      "***\n*** system log created by tcserver\nNode Name: h\n">>

InitCalls ==
    /\ content = Text("")
    /\ nChunks = 0
    /\ family = "log"
    /\ phase = "calling"
    /\ result = NoResult
    /\ lastIndex = 0
    /\ calls = <<>>
    /\ shape = <<>>
    /\ probe = <<>>
    /\ favorites = <<>>
    /\ chat = <<>>
    /\ view = <<>>

\* one more call, on the state the calls before it left
Call(text) ==
    /\ phase = "calling"
    /\ Len(calls) < MaxCalls
    /\ LET returned == parseTeamcenterLog(Text(text), lastIndex)
       IN /\ result' = [threw |-> returned.threw, value |-> returned.value]
          /\ lastIndex' = returned.lastIndex
    /\ content' = Text(text)
    /\ calls' = Append(calls, [text |-> text, result |-> result'])
    /\ UNCHANGED <<nChunks, family, phase, shape, probe, chat, view, favorites>>

NextCalls == \E k \in 1 .. Len(CallTexts) : Call(CallTexts[k])

SpecCalls == InitCalls /\ [][NextCalls]_vars

(***************************************************************************)
(* One line put together from its parts and parsed.  The parts are kept in *)
(* shape, so that what the parser found can be held against what the line  *)
(* was made of.                                                            *)
(***************************************************************************)
MaxPadding == 1

RECURSIVE Spaces(_)
Spaces(n) == IF n = 0 THEN "" ELSE " " \o Spaces(n - 1)

\* a level word, a timestamp and the zone word; well formed or not
LineHeads ==
    {[level |-> "INFO", timestamp |-> "2021/11/22-10:15:30", zone |-> "UTC", wellFormed |-> TRUE],
     [level |-> "FATAL", timestamp |-> "2021/11/22-10:15:30.25", zone |-> "UTC",
      wellFormed |-> TRUE],
     [level |-> "ERROR", timestamp |-> "2021/11/22-10:15:30", zone |-> "UTC", wellFormed |-> TRUE],
     [level |-> "TRACE", timestamp |-> "2021/11/22-10:15:30", zone |-> "UTC", wellFormed |-> FALSE],
     [level |-> "INFO", timestamp |-> "2021/1/22-10:15:30", zone |-> "UTC", wellFormed |-> FALSE],
     [level |-> "INFO", timestamp |-> "2021/11/22-10:15:30", zone |-> "utc", wellFormed |-> FALSE]}

LineIds == {"srv.1", "UTC", "", "a-b", " x y "}
LineMessages == {"msg", "", "-", "SELECT a FROM t", " a - b "}

LineShapes ==
    [head : LineHeads, gap : 0 .. MaxPadding, padding : 0 .. MaxPadding,
     id : LineIds, message : LineMessages]

\* the dash between two fields, with its padding
Dash(s) == Spaces(s.padding) \o "-" \o Spaces(s.padding)

\* the line up to its id
LineHead(s) ==
    s.head.level \o Dash(s) \o s.head.timestamp \o Spaces(s.gap) \o s.head.zone \o Dash(s)

LineOf(s) == LineHead(s) \o s.id \o Dash(s) \o s.message

InitLogLine ==
    /\ shape \in LineShapes
    /\ content = Text(LineOf(shape))
    /\ nChunks = 0
    /\ family = "log"
    /\ phase = "composed"
    /\ result = NoResult
    /\ lastIndex = 0
    /\ calls = <<>>
    /\ probe = <<>>
    /\ favorites = <<>>
    /\ chat = <<>>
    /\ view = <<>>

\* the line is parsed; probe keeps the logLines of the result
ParseLine ==
    /\ phase = "composed"
    /\ LET returned == parseTeamcenterLog(content, lastIndex)
       IN /\ result' = [threw |-> returned.threw, value |-> returned.value]
          /\ lastIndex' = returned.lastIndex
          /\ probe' = Val(returned.value).logLines
    /\ phase' = "parsed"
    /\ UNCHANGED <<content, nChunks, family, calls, shape, chat, view, favorites>>

NextLogLine == ParseLine

SpecLogLine == InitLogLine /\ [][NextLogLine]_vars

(***************************************************************************)
(* isInlineSqlText on a text put together from its parts.                  *)
(***************************************************************************)
MaxBlanks == 1

\* the word and the punctuation a text can open with
PrefixWords == {"", "SQL", "sql", "Sql"}
PrefixMarks == {"", ":", ">", "-", "=", "::", "#"}
\* runs of letters
SqlTokens == {"SELECT", "select", "Select", "WITH", "ROLLBACK", "FROM", ""}
\* what follows the token, with the letters it opens with
SqlTails ==
    {[text |-> "", letters |-> ""], [text |-> " x FROM t", letters |-> ""],
     [text |-> "ED", letters |-> "ED"], [text |-> "1", letters |-> ""],
     [text |-> "\t*", letters |-> ""]}

SqlShapes ==
    [missing : {FALSE}, lead : {"", " \t"}, word : PrefixWords, mark : PrefixMarks,
     blanks : 0 .. MaxBlanks, token : SqlTokens, tail : SqlTails]
    \cup {[missing |-> TRUE]}

SqlTextOf(s) ==
    IF s.missing THEN Null
    ELSE Some(s.lead \o s.word \o Spaces(s.blanks) \o s.mark \o Spaces(s.blanks)
              \o s.token \o s.tail.text)

InitInlineSql ==
    /\ shape \in SqlShapes
    /\ content = Text("")
    /\ nChunks = 0
    /\ family = "log"
    /\ phase = "composed"
    /\ result = NoResult
    /\ lastIndex = 0
    /\ calls = <<>>
    /\ probe = <<>>
    /\ favorites = <<>>
    /\ chat = <<>>
    /\ view = <<>>

\* isInlineSqlText(text); probe keeps what it returned
TestInlineSql ==
    /\ phase = "composed"
    /\ probe' = <<isInlineSqlText(SqlTextOf(shape))>>
    /\ phase' = "tested"
    /\ UNCHANGED <<content, nChunks, family, result, lastIndex, calls, shape, chat, view, favorites>>

NextInlineSql == TestInlineSql

SpecInlineSql == InitInlineSql /\ [][NextInlineSql]_vars


(***************************************************************************)
(* Properties of a parse result.                                           *)
(***************************************************************************)
\* a call on a string has returned
Parsed == phase = "parsed" /\ IsString(content) /\ ~result.threw
Parsed_lines == Val(result.value).lines
LastLine == Len(Parsed_lines) - 1

SeqLines(entries) == {entries[k].line : k \in DOMAIN entries}
RowLines(sections) == UNION {SeqLines(sections[k].rows) : k \in DOMAIN sections}
EntryLines(sections) == UNION {SeqLines(sections[k].entries) : k \in DOMAIN sections}

\* every value of a line field in a result
LineFields(r) ==
    (IF IsNull(r.header) THEN {} ELSE {Val(r.header).line} \cup SeqLines(Val(r.header).lines))
    \cup SeqLines(r.systemInfo)
    \cup SeqLines(r.envSections) \cup EntryLines(r.envSections)
    \cup SeqLines(r.dllSections) \cup EntryLines(r.dllSections)
    \cup SeqLines(r.sqlDumps) \cup RowLines(r.sqlDumps)
    \cup SeqLines(r.journalSections) \cup RowLines(r.journalSections)
    \cup SeqLines(r.journalHierarchyTraces) \cup RowLines(r.journalHierarchyTraces)
    \cup SeqLines(r.accessChecks) \cup SeqLines(r.workflowHandlers)
    \cup SeqLines(r.pomStats) \cup SeqLines(r.endSessions) \cup SeqLines(r.truncated)
    \cup SeqLines(r.logLines) \cup SeqLines(r.inlineSqlLines)

\* C1: in the result of a call on a string, every line field of every record
\* (header, system info, sections and their entries and rows, checks, handlers,
\* log lines, inline SQL lines) holds an index of result.lines:
\* 0 <= line < length(result.lines).
C1_LineFieldsIndexLines ==
    Parsed => \A line \in LineFields(Val(result.value)) : 0 <= line /\ line <= LastLine

\* a text of several lines whose last line, not followed by a line break, gave a LogLine
C1_Witness ==
    /\ Parsed
    /\ LastLine >= 1
    /\ \E k \in DOMAIN Val(result.value).logLines : Val(result.value).logLines[k].line = LastLine
    /\ Val(result.value).inlineSqlLines # <<>>

\* the sections that have an endLine
RangedSections(r) ==
    {r.sqlDumps[k] : k \in DOMAIN r.sqlDumps}
    \cup {[line |-> r.journalSections[k].line, endLine |-> r.journalSections[k].endLine] :
            k \in DOMAIN r.journalSections}
    \cup {[line |-> r.journalHierarchyTraces[k].line,
           endLine |-> r.journalHierarchyTraces[k].endLine] :
            k \in DOMAIN r.journalHierarchyTraces}
    \cup {[line |-> r.workflowHandlers[k].line, endLine |-> r.workflowHandlers[k].endLine] :
            k \in DOMAIN r.workflowHandlers}

\* C2: every SqlDump, JournalSection, JournalHierarchyTrace and WorkflowHandler
\* of a result has line <= endLine <= length(result.lines) - 1, whether or not
\* its closing marker was there and whether the dump came from the grammar pass
\* or from the scan of the lines.
C2_RangesWithinLines ==
    Parsed => \A section \in RangedSections(Val(result.value)) :
                section.line <= section.endLine /\ section.endLine <= LastLine

\* a section whose closing marker is missing, closed at the last line, further
\* down than where it opened
C2_Witness ==
    /\ Parsed
    /\ \E section \in RangedSections(Val(result.value)) :
          /\ section.endLine = LastLine
          /\ section.line < section.endLine
          /\ \A j \in (section.line + 1) .. LastLine :
                /\ ~StartsWith(Trim(At(Parsed_lines, j)), "END")
                /\ ~StartsWith(Trim(At(Parsed_lines, j)), "<--")

IsUnclosedStart(lines, i) ==
    /\ StartsWith(Trim(At(lines, i)), "START SQL_PROFILE_DUMP")
    /\ \A j \in (i + 1) .. (Len(lines) - 1) :
          ~StartsWith(Trim(At(lines, j)), "END SQL_PROFILE_DUMP")

\* the first of them
IsFirstUnclosedStart(lines, i) ==
    IsUnclosedStart(lines, i) /\ \A j \in 0 .. (i - 1) : ~IsUnclosedStart(lines, j)

\* C5: when the text has a START SQL_PROFILE_DUMP line with no END
\* SQL_PROFILE_DUMP line after it, the call throws nothing and the result has
\* exactly one SqlDump for it: one dump opens at that line, it ends at the last
\* line of the input, and no other dump reaches that line or a later one.
C5_UnclosedDumpEndsAtLastLine ==
    (phase = "parsed" /\ IsString(content)) =>
        \A i \in Indices(SplitLines(content.text)) :
            IsFirstUnclosedStart(SplitLines(content.text), i) =>
                /\ ~result.threw
                /\ Cardinality({k \in DOMAIN Val(result.value).sqlDumps :
                        Val(result.value).sqlDumps[k].endLine >= i}) = 1
                /\ \E k \in DOMAIN Val(result.value).sqlDumps :
                        /\ Val(result.value).sqlDumps[k].line = i
                        /\ Val(result.value).sqlDumps[k].endLine = LastLine

\* an unclosed dump below a dump the grammar pass found, with lines under its START line
C5_Witness ==
    /\ Parsed
    /\ \E i \in Indices(Parsed_lines) :
          /\ IsFirstUnclosedStart(Parsed_lines, i)
          /\ i > 0
          /\ i < LastLine
    /\ Len(Val(result.value).sqlDumps) = 2

\* C10: in a result, inlineSqlLines is in ascending order of line with no line
\* twice; the entry of a line that has a LogLine with isInlineSql is the one
\* from the log (fromLog = TRUE), so a line found both ways appears once, from
\* the log; and every LogLine with isInlineSql has its entry with fromLog = TRUE.
C10_InlineSqlLinesSortedUnique ==
    Parsed =>
        LET inline == Val(result.value).inlineSqlLines
            logLines == Val(result.value).logLines
        IN /\ \A j, k \in DOMAIN inline : j < k => inline[j].line < inline[k].line
           /\ \A k \in DOMAIN logLines :
                 logLines[k].isInlineSql =>
                    /\ \E j \in DOMAIN inline :
                          inline[j].line = logLines[k].line /\ inline[j].fromLog
                    /\ \A j \in DOMAIN inline :
                          inline[j].line = logLines[k].line => inline[j].fromLog

\* an entry from the log below an entry from the scan of the raw lines
C10_Witness ==
    /\ Parsed
    /\ \E j, k \in DOMAIN Val(result.value).inlineSqlLines :
          /\ j < k
          /\ ~Val(result.value).inlineSqlLines[j].fromLog
          /\ Val(result.value).inlineSqlLines[k].fromLog


(***************************************************************************)
(* Properties of a session of calls.                                       *)
(***************************************************************************)
\* C3: parseTeamcenterLog is deterministic and keeps nothing from one call to
\* the next: two calls on the same text return equal results, whatever texts
\* were parsed before or between them.
C3_SameTextSameResult ==
    \A i, j \in DOMAIN calls : calls[i].text = calls[j].text => calls[i].result = calls[j].result

\* the same text, one that ends in a log line, parsed before and after another text
C3_Witness ==
    /\ Len(calls) = 3
    /\ calls[1].text = calls[3].text
    /\ calls[2].text # calls[1].text
    /\ Len(Val(calls[2].result.value).logLines) = 2
    /\ Len(Val(calls[3].result.value).logLines) = 1
    /\ Val(calls[3].result.value).logLines[1].line = Len(Val(calls[3].result.value).lines) - 1

(***************************************************************************)
(* Properties of the LogLine of a line.  The shape of a line is told from  *)
(* the text alone, by the offsets each part of the shape can end at.       *)
(***************************************************************************)
ShapeLevels == {"FATAL", "ERROR", "WARN", "NOTE", "INFO", "DEBUG"}

Blank(line, a, b) == \A j \in a .. (b - 1) : CharAt(line, j) \in WhiteSpace
Plain(line, a, b) == \A j \in a .. (b - 1) : IsDot(CharAt(line, j))
DigitsAt(text, offsets) == \A j \in offsets : CharAt(text, j) \in Digits

\* YYYY/MM/DD-HH:MM:SS, with or without a fraction of a second
IsTimestampText(text) ==
    /\ Len(text) >= 19
    /\ DigitsAt(text, {0, 1, 2, 3, 5, 6, 8, 9, 11, 12, 14, 15, 17, 18})
    /\ CharAt(text, 4) = "/" /\ CharAt(text, 7) = "/" /\ CharAt(text, 10) = "-"
    /\ CharAt(text, 13) = ":" /\ CharAt(text, 16) = ":"
    /\ \/ Len(text) = 19
       \/ Len(text) >= 21 /\ CharAt(text, 19) = "." /\ DigitsAt(text, 20 .. (Len(text) - 1))

\* the offsets a part can end at, when it starts at one of the offsets in from
AfterLevel(line) == {Len(level) : level \in {l \in ShapeLevels : StartsWith(line, l)}}
AfterDash(line, from) ==
    {q \in 0 .. Len(line) :
        \E d \in 0 .. (q - 1) :
            /\ CharAt(line, d) = "-"
            /\ Blank(line, d + 1, q)
            /\ \E p \in from : p <= d /\ Blank(line, p, d)}
AfterTimestamp(line, from) ==
    {q \in 0 .. Len(line) : \E p \in from : p < q /\ IsTimestampText(Slice(line, p, q))}
AfterZone(line, from) ==
    {q \in 3 .. Len(line) :
        /\ Slice(line, q - 3, q) = "UTC"
        /\ \E p \in from : p < q - 3 /\ Blank(line, p, q - 3)}
AfterId(line, from) ==
    {q \in 0 .. Len(line) : \E p \in from : p < q /\ Plain(line, p, q)}

\* LEVEL - TIMESTAMP UTC - ID - MESSAGE
HasLogLineShape(line) ==
    \E q \in AfterDash(line, AfterId(line, AfterDash(line, AfterZone(line,
                AfterTimestamp(line, AfterDash(line, AfterLevel(line))))))) :
        Plain(line, q, Len(line))

HasDash(text) == \E j \in 0 .. (Len(text) - 1) : CharAt(text, j) = "-"

\* a line whose parts can be told apart in one way only: a well-formed head,
\* white space before the zone word, no dash in the id or the message, and
\* something between the dashes around the id
IsPlainLine(s) ==
    /\ s.head.wellFormed
    /\ s.gap >= 1
    /\ ~HasDash(s.id)
    /\ ~HasDash(s.message)
    /\ Len(s.id) + s.padding >= 1

\* C6: a line yields exactly one LogLine if and only if it has the shape
\* LEVEL - TIMESTAMP UTC - ID - MESSAGE, with LEVEL one of FATAL, ERROR, WARN,
\* NOTE, INFO, DEBUG and TIMESTAMP YYYY/MM/DD-HH:MM:SS with an optional
\* fraction; its level, timestamp, id and message are the trimmed texts of the
\* parts, levelStart is 0 and levelEnd the length of the level; any other line
\* yields no LogLine and no error.
C6_LogLineIffShape ==
    phase = "parsed" =>
        /\ ~result.threw
        /\ Len(probe) <= 1
        /\ Len(probe) = 1 <=> HasLogLineShape(LineOf(shape))
        /\ (~shape.head.wellFormed \/ shape.gap = 0) => probe = <<>>
        /\ IsPlainLine(shape) => Len(probe) = 1
        /\ \A k \in DOMAIN probe :
              /\ probe[k].line = 0
              /\ probe[k].level = shape.head.level
              /\ probe[k].timestamp = shape.head.timestamp
              /\ probe[k].levelStart = 0
              /\ probe[k].levelEnd = Len(shape.head.level)
              /\ IsPlainLine(shape) =>
                    /\ probe[k].id = Trim(shape.id)
                    /\ probe[k].message = Trim(shape.message)

\* a FATAL line, padded, gave a LogLine with the trimmed id and message it was made of
C6_Witness ==
    /\ phase = "parsed"
    /\ shape.head.level = "FATAL"
    /\ shape.id = " x y "
    /\ shape.message = "SELECT a FROM t"
    /\ Len(probe) = 1
    /\ probe[1].level = "FATAL"
    /\ probe[1].id = "x y"
    /\ probe[1].message = "SELECT a FROM t"
    /\ probe[1].levelEnd = 5

\* the offset of the first character of a text that is not white space
LeadingBlanks(text) == Len(text) - Len(TrimStart(text))

\* where the parts of a plain line are: the offsets of the timestamp, of the
\* trimmed id and of the trimmed message
TimestampAt(s) == Len(s.head.level) + Len(Dash(s))
IdAt(s) == Len(LineHead(s)) + LeadingBlanks(s.id)
MessageAt(s) == Len(LineHead(s)) + Len(s.id) + Len(Dash(s)) + LeadingBlanks(s.message)

\* C7: for every LogLine and each of timestamp, id and message whose offsets
\* are not null, [xStart, xEnd) is the span at which that field occurs in the
\* line, also when the text of the field occurs earlier in the line as well.
C7_OffsetsAreTheSpansOfTheFields ==
    (phase = "parsed" /\ IsPlainLine(shape)) =>
        \A k \in DOMAIN probe :
            /\ ~IsNull(probe[k].timestampStart) =>
                    /\ Val(probe[k].timestampStart) = TimestampAt(shape)
                    /\ Val(probe[k].timestampEnd) = TimestampAt(shape) + Len(probe[k].timestamp)
            /\ ~IsNull(probe[k].idStart) =>
                    /\ Val(probe[k].idStart) = IdAt(shape)
                    /\ Val(probe[k].idEnd) = IdAt(shape) + Len(probe[k].id)
            /\ ~IsNull(probe[k].messageStart) =>
                    /\ Val(probe[k].messageStart) = MessageAt(shape)
                    /\ Val(probe[k].messageEnd) = MessageAt(shape) + Len(probe[k].message)

\* the offsets of a field: both null, or a range that is not empty
IsNullOrRange(value, start, end) ==
    IF value = "" THEN IsNull(start) /\ IsNull(end)
    ELSE ~IsNull(start) /\ ~IsNull(end) /\ 0 <= Val(start) /\ Val(start) < Val(end)

\* C8: for every LogLine, when the trimmed id (message) is empty both its Start
\* and its End offset are null, never an empty range and never -1; when it is
\* not empty both are offsets, with Start < End.
C8_EmptyFieldsHaveNullOffsets ==
    phase = "parsed" =>
        \A k \in DOMAIN probe :
            /\ IsNullOrRange(probe[k].id, probe[k].idStart, probe[k].idEnd)
            /\ IsNullOrRange(probe[k].message, probe[k].messageStart, probe[k].messageEnd)

\* a LogLine with an id and an empty message
C8_Witness ==
    /\ phase = "parsed"
    /\ Len(probe) = 1
    /\ probe[1].id # ""
    /\ ~IsNull(probe[1].idStart)
    /\ probe[1].message = ""
    /\ IsNull(probe[1].messageStart)
    /\ IsNull(probe[1].messageEnd)

(***************************************************************************)
(* Properties of isInlineSqlText.                                          *)
(***************************************************************************)
SqlKeywords ==
    {"SELECT", "INSERT", "UPDATE", "DELETE", "MERGE", "WITH", "TRUNCATE", "CREATE",
     "ALTER", "DROP", "CALL", "EXEC", "BEGIN", "COMMIT", "CONNECT", "ROLLBACK"}

\* what the text was made of says whether it is inline SQL: past an SQL prefix
\* (the word in any case, then at most one of : > - =), or with no prefix at
\* all, the leading run of letters is a keyword in upper case
IsMadeAsInlineSql(s) ==
    /\ ~s.missing
    /\ s.word = "" => s.mark = ""
    /\ s.mark \in {"", ":", ">", "-", "="}
    /\ (s.token \o s.tail.letters) \in SqlKeywords

\* C9: isInlineSqlText(text) is true if and only if, after trimming and
\* stripping one optional leading SQL prefix with at most one of : > - =, the
\* leading run of letters is one of the sixteen keywords written in upper
\* case; keywords in lower or mixed case are rejected; an empty, blank or
\* missing text gives false.
C9_InlineSqlIffUpperCaseKeyword ==
    phase = "tested" => probe = <<IsMadeAsInlineSql(shape)>>

\* a keyword accepted past a prefix with a mark and blanks
C9_Witness ==
    /\ phase = "tested"
    /\ ~shape.missing
    /\ shape.word = "SQL"
    /\ shape.mark = ">"
    /\ shape.blanks = 1
    /\ shape.token = "SELECT"
    /\ shape.tail.text = " x FROM t"
    /\ probe = <<TRUE>>
    /\ favorites = <<>>


(***************************************************************************)
(* A document put together line by line and parsed.  The lines are kept in *)
(* shape, each with what it was written to be, so that the sections the    *)
(* parser found can be held against the lines they were found in.          *)
(***************************************************************************)
MaxLines == 3

EnvTitle == "TC environment variables:"

\* the lines under the title of an environment section: entries, written with
\* their key and value, and lines that are no entry
EnvLineShapes ==
    {[kind |-> "entry", text |-> "TC_BIN=C:\\bin", key |-> "TC_BIN", value |-> "C:\\bin"],
     [kind |-> "entry", text |-> "  TC ROOT = a=b  ", key |-> "TC ROOT", value |-> "a=b"],
     [kind |-> "entry", text |-> "EMPTY=", key |-> "EMPTY", value |-> ""],
     [kind |-> "blank", text |-> ""],
     [kind |-> "blank", text |-> "  \t"],
     [kind |-> "other", text |-> "=novalue"],
     [kind |-> "other", text |-> "no equals sign"],
     [kind |-> "other", text |-> EnvTitle]}

\* the lines of a workflow log: the ENTER and LEAVE lines of two functions
WorkflowLineShapes ==
    {[kind |-> "enter", name |-> "EPM_a", text |-> "--> ENTER Function \"EPM_a\" { (File [epm.c])"],
     [kind |-> "enter", name |-> "EPM_b", text |-> "--> ENTER Function \"EPM_b\" { (File [epm.c])"],
     [kind |-> "leave", name |-> "EPM_a", text |-> "<-- LEAVE Function \"EPM_a\""],
     [kind |-> "leave", name |-> "EPM_b", text |-> "<-- LEAVE Function \"EPM_b\" }"],
     [kind |-> "other", name |-> "", text |-> "x"]}

\* the families of journal documents, each with the START line it opens with
JournalFamilies == {"allFunctions", "topLevel", "summary"}
JournalStart(f) ==
    CASE f = "allFunctions" -> "START JOURNALLED_TIMES_IN_ALL_FUNCTIONS"
      [] f = "topLevel" -> "START JOURNALLED_TIMES_IN_TOP_LEVEL_FUNCTIONS"
      [] f = "summary" -> "START JOURNALLED_TIMES"

\* the lines of a journal: the END lines of the three types, and "@*" lines,
\* written with whether their first segment is a number and whether a function
\* name follows the numbers
JournalLineShapes ==
    {[kind |-> "end", type |-> "allFunctions", text |-> "END JOURNALLED_TIMES_IN_ALL_FUNCTIONS"],
     [kind |-> "end", type |-> "topLevel", text |-> "END JOURNALLED_TIMES_IN_TOP_LEVEL_FUNCTIONS"],
     [kind |-> "end", type |-> "summary", text |-> "END JOURNALLED_TIMES"],
     [kind |-> "row", numeric |-> TRUE, named |-> TRUE, text |-> " @* 7  1.0  fn b"],
     [kind |-> "row", numeric |-> FALSE, named |-> TRUE, text |-> "@*  abc  1.0  fn"],
     [kind |-> "row", numeric |-> TRUE, named |-> FALSE, text |-> "@*  42"]}

\* the lines of SQL profile dumps: START and END lines, the column header, the
\* separators of underscores and of dashes, a blank line and a row
SqlLineShapes ==
    {[kind |-> "start", text |-> "  START SQL_PROFILE_DUMP 1"],
     [kind |-> "end", text |-> "END SQL_PROFILE_DUMP"],
     [kind |-> "header", text |-> "Nr Calls Time   DB-Time Exec-Time Trips Rows  SQL Query"],
     [kind |-> "underscores", text |-> "__________"],
     [kind |-> "dashes", text |-> " -------- "],
     [kind |-> "blank", text |-> " \t"],
     [kind |-> "row", text |-> "  1 2 0.5 0.1 0.2 3 4 SELECT a FROM t "]}

\* lines with and without an access check, written with the mode and the
\* target the check names: at the start of the line, after white space, and
\* after the prefix of a log record
AccessLineShapes ==
    {[kind |-> "check", mode |-> "READ", target |-> "item1",
      text |-> "AM_check_priv (READ) on item1"],
     [kind |-> "check", mode |-> "WRITE", target |-> "item2",
      text |-> "  AM_check_priv( WRITE ) on item2 granted"],
     [kind |-> "check", mode |-> "READ", target |-> "item3",
      text |-> "INFO - 2021/11/22-10:15:30 UTC - srv.1 - AM_check_priv(READ) on item3"],
     [kind |-> "other", mode |-> "", target |-> "", text |-> "AM_check_priv READ on item1"],
     [kind |-> "other", mode |-> "", target |-> "", text |-> "x"]}

\* START lines of journal variants the patterns table does not name, written
\* with the pattern that claims them if one does, and the lines of a summary
VariantLineShapes ==
    {[kind |-> "variant", claimedBy |-> "none", text |-> "START JOURNALLED_TIMES_BY_USER"],
     [kind |-> "variant", claimedBy |-> "none", text |-> " START JOURNALLED_TIMES_IN_ALL"],
     [kind |-> "variant", claimedBy |-> "allFunctions",
      text |-> "START JOURNALLED_TIMES_IN_ALL_FUNCTIONS_V2"],
     [kind |-> "variant", claimedBy |-> "topLevel",
      text |-> "START JOURNALLED_TIMES_in_top_level_functions2"],
     [kind |-> "start", claimedBy |-> "summary", text |-> "START JOURNALLED_TIMES 2"],
     [kind |-> "end", claimedBy |-> "none", text |-> "END JOURNALLED_TIMES"]}

\* the lines of journal hierarchy traces: START and END lines, two header
\* lines, a row of six numeric columns and a routine, and lines that are none
\* of these
TraceLineShapes ==
    {[kind |-> "start", text |-> "START JOURNAL_HIERARCHY_TRACE v2"],
     [kind |-> "end", text |-> " END JOURNAL_HIERARCHY_TRACE"],
     [kind |-> "header", text |-> " %Total %Parent Time"],
     [kind |-> "header", text |-> "%Totals"],
     [kind |-> "row", text |-> " 10 20 1.5 3 4 1 fn a "],
     [kind |-> "other", text |-> "10 20 x 3 4 1 fn a"],
     [kind |-> "other", text |-> "END JOURNAL_HIERARCHY_TRACES"]}

\* the lines a document of a family opens with
DocumentHead(f) ==
    CASE f = "env" -> <<EnvTitle>>
      [] f \in JournalFamilies -> <<JournalStart(f)>>
      [] OTHER -> <<>>

\* the lines a document of a family goes on with
LineMenu(f) ==
    CASE f = "env" -> EnvLineShapes
      [] f = "workflow" -> WorkflowLineShapes
      [] f \in JournalFamilies -> JournalLineShapes
      [] f = "sql" -> SqlLineShapes
      [] f = "trace" -> TraceLineShapes
      [] f = "variant" -> VariantLineShapes
      [] f = "access" -> AccessLineShapes
      [] OTHER -> {}

RECURSIVE JoinLines(_, _)
JoinLines(lines, k) ==
    IF k > Len(lines) THEN "" ELSE lines[k] \o "\n" \o JoinLines(lines, k + 1)

InitDocument(f) ==
    /\ family = f
    /\ shape = <<>>
    /\ content = Text(JoinLines(DocumentHead(f), 1))
    /\ nChunks = 0
    /\ phase = "editing"
    /\ result = NoResult
    /\ lastIndex = 0
    /\ calls = <<>>
    /\ probe = <<>>
    /\ favorites = <<>>
    /\ chat = <<>>
    /\ view = <<>>

\* one more line, with its line break
AddLine(l) ==
    /\ phase = "editing"
    /\ Len(shape) < MaxLines
    /\ shape' = Append(shape, l)
    /\ content' = Text(content.text \o l.text \o "\n")
    /\ UNCHANGED <<nChunks, family, phase, result, lastIndex, calls, probe, chat, view, favorites>>

\* the document is parsed as it is, or as a file cut off before its last line break
ParseDocument(cut) ==
    /\ phase = "editing"
    /\ cut => Len(content.text) > 0
    /\ content' = IF cut THEN Text(Slice(content.text, 0, Len(content.text) - 1)) ELSE content
    /\ LET returned == parseTeamcenterLog(content', lastIndex)
       IN /\ result' = [threw |-> returned.threw, value |-> returned.value]
          /\ lastIndex' = returned.lastIndex
    /\ phase' = "parsed"
    /\ UNCHANGED <<nChunks, family, calls, shape, probe, chat, view, favorites>>

NextDocument ==
    \/ \E l \in LineMenu(family) : AddLine(l)
    \/ \E cut \in BOOLEAN : ParseDocument(cut)

InitEnv == InitDocument("env")
SpecEnv == InitEnv /\ [][NextDocument]_vars

\* the shape of the line at an index of the document, for the lines after its head;
\* a document that was not cut off ends in an empty line
ShapeAt(i) ==
    LET k == i - Len(DocumentHead(family)) + 1
    IN IF k >= 1 /\ k <= Len(shape) THEN shape[k] ELSE [kind |-> "blank", text |-> ""]

\* C11: the entries of an environment section with its title on line s are the
\* lines s+1, s+2, ... as long as they are key=value lines, with the trimmed text
\* before the first "=" as key and the trimmed text after it as value; the line
\* after the last entry, if there is one, is blank or no key=value line.
C11_EnvEntriesAreTheRunAfterTheTitle ==
    (Parsed /\ family = "env") =>
        \A k \in DOMAIN Val(result.value).envSections :
            LET section == Val(result.value).envSections[k]
                n == Len(section.entries)
            IN /\ \A j \in 1 .. n :
                    /\ section.entries[j].line = section.line + j
                    /\ ShapeAt(section.line + j).kind = "entry"
                    /\ section.entries[j].key = ShapeAt(section.line + j).key
                    /\ section.entries[j].value = ShapeAt(section.line + j).value
               /\ section.line + n + 1 <= LastLine =>
                    ShapeAt(section.line + n + 1).kind # "entry"

\* an entry, a blank line and a key=value line after it: one entry
C11_Witness ==
    /\ Parsed /\ family = "env"
    /\ Len(shape) = 3
    /\ shape[1].kind = "entry" /\ shape[2].kind = "blank" /\ shape[3].kind = "entry"
    /\ Len(Val(result.value).envSections) = 1
    /\ Len(Val(result.value).envSections[1].entries) = 1
    /\ Val(result.value).envSections[1].entries[1].key = "TC ROOT"

InitWorkflow == InitDocument("workflow")
SpecWorkflow == InitWorkflow /\ [][NextDocument]_vars

\* the lines after line i that are LEAVE lines of a function
LeaveLinesAfter(i, name) ==
    {j \in (i + 1) .. LastLine : ShapeAt(j).kind = "leave" /\ ShapeAt(j).name = name}

\* the handlers of a result that start on a line
HandlersAt(i) ==
    {k \in DOMAIN Val(result.value).workflowHandlers :
        Val(result.value).workflowHandlers[k].line = i}

\* C12: the handler of an ENTER line of a function ends on the nearest later
\* line that is a LEAVE line of the same function; a LEAVE line of another
\* function in between does not end it.
C12_HandlerEndsAtLeaveOfSameFunction ==
    (Parsed /\ family = "workflow") =>
        \A k \in DOMAIN Val(result.value).workflowHandlers :
            LET handler == Val(result.value).workflowHandlers[k]
                leaves == LeaveLinesAfter(handler.line, handler.functionName)
            IN leaves # {} =>
                 /\ handler.endLine \in leaves
                 /\ \A j \in leaves : handler.endLine <= j

\* C13: an ENTER line with no later LEAVE line of the same function gives
\* exactly one handler, which ends on the line it starts on.
C13_HandlerWithoutLeaveEndsWhereItStarts ==
    (Parsed /\ family = "workflow") =>
        \A i \in 0 .. LastLine :
            (ShapeAt(i).kind = "enter" /\ LeaveLinesAfter(i, ShapeAt(i).name) = {}) =>
                /\ Cardinality(HandlersAt(i)) = 1
                /\ \A k \in HandlersAt(i) :
                       Val(result.value).workflowHandlers[k].endLine = i

InitJournal == \E f \in JournalFamilies : InitDocument(f)
SpecJournal == InitJournal /\ [][NextDocument]_vars

\* the journal sections of a result that start on a line
JournalSectionsAt(i) ==
    {k \in DOMAIN Val(result.value).journalSections :
        Val(result.value).journalSections[k].line = i}

\* the END lines of a type after the first line
EndLinesOf(type) ==
    {j \in 1 .. LastLine : ShapeAt(j).kind = "end" /\ ShapeAt(j).type = type}

\* the lines of a section that lie between its first and its last line and are
\* "@*" lines with a first segment that is no number
NonNumericBefore(section, j) ==
    {m \in (section.line + 1) .. (j - 1) :
        ShapeAt(m).kind = "row" /\ ~ShapeAt(m).numeric}

\* C14: in a topLevel or allFunctions section, a "@*" line whose first segment
\* is no number gives no row, and the lines after it are still scanned: a "@*"
\* line with a number and a name that follows it inside the section has its row.
C14_NonNumericRowIsPassedOver ==
    (Parsed /\ family \in {"topLevel", "allFunctions"}) =>
        \A k \in DOMAIN Val(result.value).journalSections :
            LET section == Val(result.value).journalSections[k]
            IN /\ \A r \in DOMAIN section.rows :
                    ~(ShapeAt(section.rows[r].line).kind = "row"
                      /\ ~ShapeAt(section.rows[r].line).numeric)
               /\ \A j \in (section.line + 1) .. (section.endLine - 1) :
                    (/\ ShapeAt(j).kind = "row" /\ ShapeAt(j).numeric /\ ShapeAt(j).named
                     /\ NonNumericBefore(section, j) # {})
                    => j \in SeqLines(section.rows)

\* a line with "abc" first, then a line with numbers: one row, of the second line
C14_Witness ==
    /\ Parsed /\ family = "topLevel"
    /\ Len(shape) = 3
    /\ shape[1].kind = "row" /\ ~shape[1].numeric
    /\ shape[2].kind = "row" /\ shape[2].numeric /\ shape[2].named
    /\ shape[3].kind = "end" /\ shape[3].type = "topLevel"
    /\ Len(Val(result.value).journalSections) = 1
    /\ SeqLines(Val(result.value).journalSections[1].rows) = {2}

\* C15: every JournalRow has a function name that is not empty, and a "@*" line
\* on which no function name is left after the numbers gives no row.
C15_RowsHaveAFunctionName ==
    (Parsed /\ family \in {"topLevel", "allFunctions"}) =>
        \A k \in DOMAIN Val(result.value).journalSections :
            \A r \in DOMAIN Val(result.value).journalSections[k].rows :
                LET row == Val(result.value).journalSections[k].rows[r]
                IN /\ row.functionName # ""
                   /\ ~(ShapeAt(row.line).kind = "row" /\ ~ShapeAt(row.line).named)

\* C16: a START line gives one section, of the type of the most specific marker
\* it carries, and the section ends on the nearest END line of its own type; the
\* END line of another type does not end it.
C16_SectionTypedAndClosedByItsOwnMarker ==
    (Parsed /\ family \in JournalFamilies) =>
        /\ Cardinality(JournalSectionsAt(0)) = 1
        /\ \A k \in JournalSectionsAt(0) :
            LET section == Val(result.value).journalSections[k]
            IN /\ section.type = family
               /\ IF EndLinesOf(family) # {}
                  THEN /\ section.endLine \in EndLinesOf(family)
                       /\ \A j \in EndLinesOf(family) : section.endLine <= j
                  ELSE section.endLine = LastLine

\* a summary section with the END line of another type before its own
C16_Witness ==
    /\ Parsed /\ family = "summary"
    /\ Len(shape) = 3
    /\ shape[1].kind = "end" /\ shape[1].type = "allFunctions"
    /\ shape[2].kind = "end" /\ shape[2].type = "summary"
    /\ Val(result.value).journalSections[1].type = "summary"
    /\ Val(result.value).journalSections[1].endLine = 2

\* the lines of the body of the section that starts on the first line: the lines
\* before the nearest END line of its type, or all the lines after the first
\* when there is none
BodyLines ==
    IF EndLinesOf(family) # {}
    THEN {j \in 1 .. LastLine : \A e \in EndLinesOf(family) : j < e}
    ELSE 1 .. LastLine

\* C20: in a topLevel or allFunctions section, the rows are, in the order of
\* their lines, the "@*" lines of the body whose first segment is a number, one
\* row each; the body runs to the line before the END line, or to the last line
\* of the input when there is no END line.
C20_RowsAreTheNumericBodyLines ==
    (Parsed /\ family \in {"topLevel", "allFunctions"}) =>
        \A k \in JournalSectionsAt(0) :
            LET rows == Val(result.value).journalSections[k].rows
            IN /\ SeqLines(rows) =
                    {j \in BodyLines : ShapeAt(j).kind = "row" /\ ShapeAt(j).numeric}
               /\ \A a, b \in DOMAIN rows : a < b => rows[a].line < rows[b].line

\* what parseTeamcenterLog returns for the lines of the result when the tree of
\* the grammar pass holds no context: the work of the heuristic scanners alone
HeuristicsAlone == ParseResult(Parsed_lines, <<>>, Val(result.value).logLines)

\* C17: the heuristic scanners alone give every kind of section and marker of a
\* result: a parse to which the grammar pass adds nothing returns the same
\* envSections, dllSections, sqlDumps, journalSections, pomStats, endSessions
\* and truncated as the parse with the grammar pass.
C17_HeuristicsAloneGiveTheSameRecords ==
    Parsed =>
        /\ Val(result.value).envSections = HeuristicsAlone.envSections
        /\ Val(result.value).dllSections = HeuristicsAlone.dllSections
        /\ Val(result.value).sqlDumps = HeuristicsAlone.sqlDumps
        /\ Val(result.value).journalSections = HeuristicsAlone.journalSections
        /\ Val(result.value).pomStats = HeuristicsAlone.pomStats
        /\ Val(result.value).endSessions = HeuristicsAlone.endSessions
        /\ Val(result.value).truncated = HeuristicsAlone.truncated

(***************************************************************************)
(* The AI chat: AiChatManager keeps the conversation and asks the agent,   *)
(* which asks the configured provider over HTTP.                           *)
(***************************************************************************)
\* how many messages a conversation is sent
MaxSends == 2

PROVIDERS ==
    [deepseek |-> [defaultModel |-> "deepseek-chat", requiresKey |-> TRUE],
     openai   |-> [defaultModel |-> "gpt-4o-mini", requiresKey |-> TRUE],
     ollama   |-> [defaultModel |-> "llama3", requiresKey |-> FALSE]]

\* the settings under tcSyslogViewer.ai as getAiConfiguration reads them
AiConfigurations ==
    {[provider |-> p, model |-> "", apiKey |-> k] :
        p \in {"deepseek", "openai", "ollama", "mistral"}, k \in {"", "sk-1"}}

Failure(message) == [threw |-> TRUE, error |-> message, value |-> Null]

Success(v) == [threw |-> FALSE, error |-> "", value |-> Some(v)]

Capitalize(s) == IF s = "" THEN s ELSE ToUpperCase(Slice(s, 0, 1)) \o SliceFrom(s, 1)

refreshConfiguration(config) ==
    LET provider == IF config.provider \in DOMAIN PROVIDERS
                    THEN PROVIDERS[config.provider]
                    ELSE PROVIDERS["deepseek"]
    IN  [config      |-> config,
         provider    |-> provider,
         model       |-> IF config.model # "" THEN config.model ELSE provider.defaultModel,
         requiresKey |-> provider.requiresKey # FALSE]

getDisplayName(agent) == Capitalize(agent.config.provider) \o ": " \o agent.model

getAiDisplayName(config) ==
    (IF Trim(config.provider) # "" THEN Capitalize(Trim(config.provider)) ELSE "LLM")
        \o ": " \o (IF config.model # "" THEN config.model ELSE "model")

\* the content of a provider's message: null, a string, or an array of strings
RECURSIVE JoinContent(_, _)
JoinContent(items, k) ==
    IF k > Len(items) THEN ""
    ELSE IF k = Len(items) THEN items[k]
    ELSE items[k] \o "\n" \o JoinContent(items, k + 1)

normalizeContent(body) ==
    IF body.type = "null" THEN ""
    ELSE IF body.type = "string" THEN body.text
    ELSE JoinContent(body.items, 1)

\* what the provider does with one request: fetch rejects (nobody listens),
\* an HTTP status that is not ok, a payload without choices, or a message
Rejects == [kind |-> "rejects"]
Unavailable == [kind |-> "status", status |-> "503", text |-> "busy"]
NoChoices == [kind |-> "payload", message |-> Null]
Message(body, tool_calls) ==
    [kind |-> "payload", message |-> Some([content |-> body, tool_calls |-> tool_calls])]

ProviderReplies ==
    {<<Rejects>>, <<Unavailable>>, <<NoChoices>>,
     <<Message([type |-> "null"], 0)>>,
     <<Message([type |-> "string", text |-> "Check TC_DATA."], 0)>>,
     <<Message([type |-> "null"], 1),
       Message([type |-> "array", items |-> <<"2 errors.", "See line 7.">>], 0)>>,
     <<Message([type |-> "null"], 1), Rejects>>}

callModel(agent, reply) ==
    IF agent.requiresKey /\ agent.config.apiKey = ""
    THEN Failure("AI API key is not configured. Update tcSyslogViewer.ai.apiKey in settings.")
    ELSE IF reply.kind = "rejects" THEN Failure("fetch failed")
    ELSE IF reply.kind = "status"
    THEN Failure("AI request failed (" \o reply.status \o "): " \o reply.text)
    ELSE IF IsNull(reply.message) THEN Failure("AI provider returned no choices")
    ELSE Success(Val(reply.message))

\* the loop of SyslogAiAgent.sendMessage: ask again while the answer calls tools
RECURSIVE AgentLoop(_, _, _)
AgentLoop(agent, replies, k) ==
    LET response == callModel(agent, replies[k])
    IN  IF response.threw THEN response
        ELSE IF Val(response.value).tool_calls > 0 THEN AgentLoop(agent, replies, k + 1)
        ELSE response

AgentSendMessage(agent, document, userMessage, replies) ==
    IF IsNull(document) THEN Failure("No active syslog document to analyze.")
    ELSE IF Trim(userMessage) = "" THEN Failure("Message is empty.")
    ELSE LET response == AgentLoop(agent, replies, 1)
         IN  IF response.threw THEN response
             ELSE IF normalizeContent(Val(response.value).content) = ""
             THEN Failure("AI response was empty.")
             ELSE Success([summary  |-> normalizeContent(Val(response.value).content),
                           provider |-> getDisplayName(agent)])

\* AiChatManager.sendMessage: the conversation afterwards, and how the call ended
ManagerSendMessage(manager, document, userMessage, replies) ==
    IF Trim(userMessage) = ""
    THEN [messages |-> manager.messages, threw |-> TRUE, error |-> "Message cannot be empty."]
    ELSE LET userEntry == [id |-> "user", role |-> "user",
                           content |-> Trim(userMessage), provider |-> ""]
             response == AgentSendMessage(manager.agent, document, Trim(userMessage), replies)
         IN  IF ~response.threw
             THEN [messages |-> manager.messages \o
                       <<userEntry,
                         [id |-> "assistant", role |-> "assistant",
                          content |-> Val(response.value).summary,
                          provider |-> Val(response.value).provider]>>,
                   threw |-> FALSE, error |-> ""]
             ELSE [messages |-> manager.messages \o
                       <<userEntry,
                         [id |-> "assistant-error", role |-> "assistant",
                          content |-> response.error,
                          provider |-> getAiDisplayName(manager.agent.config) \o " (error)"]>>,
                   threw |-> TRUE, error |-> response.error]

\* chat.last is the call that has just ended, when the last step was a call
NoCall == [called |-> FALSE]

InitChat ==
    /\ \E config \in AiConfigurations :
           chat = [agent |-> refreshConfiguration(config), messages |-> <<>>,
                   sends |-> 0, last |-> NoCall]
    /\ content = Text("")
    /\ nChunks = 0
    /\ family = ""
    /\ phase = "chat"
    /\ result = NoResult
    /\ lastIndex = 0
    /\ calls = <<>>
    /\ shape = <<>>
    /\ probe = <<>>
    /\ favorites = <<>>
    /\ view = <<>>

SendMessage(document, userMessage, replies) ==
    /\ phase = "chat"
    /\ chat.sends < MaxSends
    /\ LET ended == ManagerSendMessage(chat, document, userMessage, replies)
       IN  chat' = [chat EXCEPT !.messages = ended.messages,
                                !.sends = @ + 1,
                                !.last = [called |-> TRUE, document |-> document,
                                          userMessage |-> userMessage, replies |-> replies,
                                          threw |-> ended.threw, error |-> ended.error]]
    /\ UNCHANGED <<content, nChunks, family, phase, result, lastIndex, calls, shape, probe, view, favorites>>

\* the settings change: the manager has the agent read them again
ChangeConfiguration(config) ==
    /\ phase = "chat"
    /\ config # chat.agent.config
    /\ chat' = [chat EXCEPT !.agent = refreshConfiguration(config), !.last = NoCall]
    /\ UNCHANGED <<content, nChunks, family, phase, result, lastIndex, calls, shape, probe, view, favorites>>

resetConversation ==
    /\ phase = "chat"
    /\ chat.messages # <<>>
    /\ chat' = [chat EXCEPT !.messages = <<>>, !.last = NoCall]
    /\ UNCHANGED <<content, nChunks, family, phase, result, lastIndex, calls, shape, probe, view, favorites>>

ChatDocuments == {Null, Some(Text("ERROR - 2021/11/22-10:15:01.123 UTC - NoId - boom\n"))}

ChatMessages == {" ", " why? "}

NextChat ==
    \/ \E document \in ChatDocuments, userMessage \in ChatMessages, replies \in ProviderReplies :
           SendMessage(document, userMessage, replies)
    \/ \E config \in AiConfigurations : ChangeConfiguration(config)
    \/ resetConversation

SpecChat == InitChat /\ [][NextChat]_vars

\* a proper question about an open document has just been sent
ProperQuestion ==
    /\ chat.last.called
    /\ ~IsNull(chat.last.document)
    /\ Trim(chat.last.userMessage) # ""

\* the entry at the end of the conversation
LastEntry == chat.messages[Len(chat.messages)]

\* C18: when the provider is offline (the request fails) or no API key is
\* configured for a provider that requires one, sending a chat message does
\* not end in an error, and the assistant's answer appended to the
\* conversation is a summary, not the error.
C18_OfflineOrKeylessFallsBackToASummary ==
    (/\ ProperQuestion
     /\ \/ chat.last.replies[1] = Rejects
        \/ chat.agent.requiresKey /\ chat.agent.config.apiKey = "")
        => /\ ~chat.last.threw
           /\ chat.messages # <<>>
           /\ LastEntry.role = "assistant"
           /\ LastEntry.id = "assistant"
           /\ LastEntry.content # chat.last.error

(***************************************************************************)
(* The controller: SyslogController keeps the document it shows, its last  *)
(* parse, the models of the basic and the extra tree view, their messages  *)
(* and the decorations of the visible editors.                             *)
(***************************************************************************)
\* how many times a document is handed to the controller
MaxRefreshes == 3

LEVEL_ORDER == <<"FATAL", "ERROR", "WARN", "NOTE", "INFO", "DEBUG">>

Uris == {"file:///a.syslog", "file:///B.SYSLOG", "file:///notes.txt"}

\* document.fileName of a uri
FileName(uri) == SliceFrom(uri, 7)

ToLowerCase(s) ==
    IF s = "" THEN s
    ELSE LET LowerOf(c) == IF \E l \in DOMAIN UpperOf : UpperOf[l] = c
                           THEN CHOOSE l \in DOMAIN UpperOf : UpperOf[l] = c
                           ELSE c
             RECURSIVE Lowered(_)
             Lowered(k) == IF k > Len(s) THEN ""
                           ELSE LowerOf(Slice(s, k - 1, k)) \o Lowered(k + 1)
         IN  Lowered(1)

EndsWith(s, suffix) ==
    Len(s) >= Len(suffix) /\ SliceFrom(s, Len(s) - Len(suffix)) = suffix

isSyslogDocument(document) ==
    ~IsNull(document) /\ EndsWith(ToLowerCase(FileName(Val(document).uri)), ".syslog")

\* what document.getText() gives: text, or something that is not a string
ViewTexts ==
    {Text("INFO - 2021/11/22-10:15:30 UTC - srv.1 - started\nplain\n"),
     Text("TC environment variables:\nTC_ROOT=C:\\tc\n\nSELECT a FROM t\n"),
     Text("ERROR - 2021/11/22-10:15:31 UTC - srv.1 - UPDATE t\n"),
     Text(""),
     [type |-> "number"]}

ViewDocuments ==
    {Null} \cup {Some([uri |-> u, text |-> t]) : u \in Uris, t \in ViewTexts}

\* the message of the TypeError content.split raises on what is not a string
ParseErrorMessage == "content.split is not a function"

EmptyModel == [resource |-> Null, nodes |-> <<>>]

\* buildTreeModel: the root nodes, each by its id, in the order they are pushed
buildTreeModel(parsed, resource) ==
    LET HasEntries(sections) == \E k \in 1..Len(sections) : Len(sections[k].entries) > 0
        candidates ==
            <<[id |-> "root:overview",
               present |-> \/ ~IsNull(parsed.header)
                           \/ Len(parsed.systemInfo) > 0
                           \/ HasEntries(parsed.envSections)
                           \/ HasEntries(parsed.dllSections)
                           \/ Len(parsed.pomStats) > 0
                           \/ Len(parsed.endSessions) > 0],
              [id |-> "root:sql", present |-> Len(parsed.sqlDumps) > 0],
              [id |-> "root:journal",
               present |-> \/ Len(parsed.journalSections) > 0
                           \/ Len(parsed.journalHierarchyTraces) > 0],
              [id |-> "root:access", present |-> Len(parsed.accessChecks) > 0],
              [id |-> "root:workflowHandlers", present |-> Len(parsed.workflowHandlers) > 0],
              [id |-> "root:levels", present |-> Len(parsed.logLines) > 0],
              [id |-> "root:inlineSql", present |-> Len(parsed.inlineSqlLines) > 0]>>
        Present(node) == node.present
        pushed == SelectSeq(candidates, Present)
    IN  [resource |-> Some(resource), nodes |-> [k \in 1..Len(pushed) |-> pushed[k].id]]

basicIds == {"root:overview", "root:levels"}

\* the ranges applyDecorations gives the level decorations of the document's
\* visible editors; the other decoration types are set and cleared with them
LevelRanges(parsed) ==
    LET Decorated(entry) == entry.level # "" /\ \E k \in 1..Len(LEVEL_ORDER) : LEVEL_ORDER[k] = entry.level
        entries == SelectSeq(parsed.logLines, Decorated)
    IN  [k \in 1..Len(entries) |->
            [line |-> entries[k].line,
             start |-> Max(0, entries[k].levelStart),
             end |-> Max(0, entries[k].levelEnd)]]

\* applyDecorations: nothing without a visible editor of the document
applyDecorations(decorations, visible, uri, parsed) ==
    IF uri \notin visible THEN decorations
    ELSE [decorations EXCEPT ![uri] = LevelRanges(parsed)]

\* clearDecorations: nothing without a visible editor of the document
clearDecorations(decorations, visible, uri) ==
    IF IsNull(uri) \/ Val(uri) \notin visible THEN decorations
    ELSE [decorations EXCEPT ![Val(uri)] = <<>>]

NoDecorations == [u \in Uris |-> <<>>]

\* the sets of uris that can have visible editors
VisibleEditors == SUBSET {"file:///a.syslog", "file:///B.SYSLOG"}

\* the controller after its constructor
NewView ==
    [currentUri   |-> Null,
     latestParsed |-> Null,
     treeModel    |-> EmptyModel,
     extraModel   |-> EmptyModel,
     treeMessage  |-> Some("Open a .syslog file to see parsed categories."),
     extraMessage |-> Some("Open a .syslog file to see extra categories."),
     decorations  |-> NoDecorations,
     refreshTimer |-> Null,
     pendingDocument |-> Null,
     shown        |-> <<>>,
     outcome      |-> "new",
     refreshes    |-> 0]

clearView(v, visible, message) ==
    [v EXCEPT !.decorations = clearDecorations(v.decorations, visible, v.currentUri),
              !.currentUri = Null,
              !.latestParsed = Null,
              !.treeModel = EmptyModel,
              !.extraModel = EmptyModel,
              !.treeMessage = Some(message),
              !.extraMessage = Some("Open a .syslog file to see extra categories.")]

\* the catch branch of refresh
refreshFailed(v, visible, document) ==
    [v EXCEPT !.treeModel = EmptyModel,
              !.extraModel = EmptyModel,
              !.treeMessage = Some("Failed to parse syslog: " \o ParseErrorMessage),
              !.extraMessage = Some("Open a .syslog file to see extra categories."),
              !.decorations = clearDecorations(v.decorations, visible, Some(document.uri)),
              !.latestParsed = Null,
              !.shown = <<"TC Syslog: unable to parse file - " \o ParseErrorMessage>>]

\* refresh after a parse that returned
refreshParsed(v, visible, document, parsed) ==
    LET model == buildTreeModel(parsed, document.uri)
        Basic(id) == id \in basicIds
        Extra(id) == id \notin basicIds
        basicNodes == SelectSeq(model.nodes, Basic)
        extraNodes == SelectSeq(model.nodes, Extra)
    IN  [v EXCEPT !.currentUri = Some(document.uri),
                  !.latestParsed = Some(parsed),
                  !.treeModel = [resource |-> model.resource, nodes |-> basicNodes],
                  !.extraModel = [resource |-> model.resource, nodes |-> extraNodes],
                  !.treeMessage = IF Len(basicNodes) > 0 THEN Null
                                  ELSE Some("No basic content available."),
                  !.extraMessage = IF Len(extraNodes) > 0 THEN Null
                                   ELSE Some("No extra content available."),
                  !.decorations = applyDecorations(v.decorations, visible, document.uri, parsed)]

\* refresh from the try statement on, with what parseTeamcenterLog did
refreshReturned(u, visible, document, returned) ==
    IF returned.threw
    THEN [view |-> [refreshFailed(u, visible, document) EXCEPT !.outcome = "failed"],
          lastIndex |-> returned.lastIndex]
    ELSE [view |-> [refreshParsed(u, visible, document, Val(returned.value))
                       EXCEPT !.outcome = "parsed"],
          lastIndex |-> returned.lastIndex]

\* refresh(document), with the uris of the visible editors: the controller
\* afterwards and LOG_LINE_REGEX.lastIndex afterwards
refresh(v, visible, document, index) ==
    IF IsNull(document) \/ ~isSyslogDocument(document)
    THEN [view |-> [clearView(v, visible, "Open a .syslog file to see parsed categories.")
                        EXCEPT !.outcome = "cleared"],
          lastIndex |-> index]
    ELSE refreshReturned(
            [v EXCEPT !.decorations =
                IF ~IsNull(v.currentUri) /\ Val(v.currentUri) # Val(document).uri
                THEN clearDecorations(v.decorations, visible, v.currentUri)
                ELSE v.decorations],
            visible, Val(document), parseTeamcenterLog(Val(document).text, index))

\* the controller and LOG_LINE_REGEX.lastIndex become what a call left
Becomes(after) ==
    /\ view' = after.view
    /\ lastIndex' = after.lastIndex

InitView ==
    /\ view = NewView
    /\ content = Text("")
    /\ nChunks = 0
    /\ family = ""
    /\ phase = "view"
    /\ result = NoResult
    /\ lastIndex = 0
    /\ calls = <<>>
    /\ shape = <<>>
    /\ probe = <<>>
    /\ favorites = <<>>
    /\ chat = <<>>

\* refresh is called with a document (refreshActive, handleDocumentOpened,
\* handleActiveEditorChange or the timer of handleDocumentChanged)
Refresh(document, visible) ==
    /\ phase = "view"
    /\ view.refreshes < MaxRefreshes
    /\ Becomes(refresh([view EXCEPT !.shown = <<>>, !.refreshes = @ + 1],
                       visible, document, lastIndex))
    /\ UNCHANGED <<content, nChunks, family, phase, result, calls, shape, probe, chat, favorites>>

\* handleDocumentClosed for a document that is not a preview
handleDocumentClosed(uri, visible) ==
    /\ phase = "view"
    /\ view.currentUri = Some(uri)
    /\ view' = [clearView(view, visible, "Open a .syslog file to see parsed categories.")
                    EXCEPT !.shown = <<>>, !.outcome = "closed"]
    /\ UNCHANGED <<content, nChunks, family, phase, result, lastIndex, calls, shape, probe, chat, favorites>>

NextView ==
    \/ \E document \in ViewDocuments, visible \in VisibleEditors : Refresh(document, visible)
    \/ \E uri \in Uris, visible \in VisibleEditors : handleDocumentClosed(uri, visible)

SpecView == InitView /\ [][NextView]_vars

\* C19: when parseTeamcenterLog throws during refresh, the controller shows a
\* single error and leaves the view as it was: the models of the basic and
\* the extra tree view, latestParsed, currentUri and the decorations are the
\* same after the failed refresh as before it.
C19_FailedRefreshLeavesTheViewUnchanged ==
    [][(view'.refreshes = view.refreshes + 1 /\ view'.outcome = "failed")
          => /\ Len(view'.shown) = 1
             /\ view'.treeModel = view.treeModel
             /\ view'.extraModel = view.extraModel
             /\ view'.latestParsed = view.latestParsed
             /\ view'.currentUri = view.currentUri
             /\ view'.decorations = view.decorations]_vars

\* the digest of the section that starts on the first line, as the lines were
\* written: of the first 8 lines of the body, the first 3 that are not blank
\* and are neither END lines nor "@*" lines, trimmed and joined with spaces
RECURSIVE DigestFrom(_, _, _)
DigestFrom(j, taken, text) ==
    IF j > 8 \/ j \notin BodyLines \/ taken >= 3 THEN text
    ELSE IF ShapeAt(j).kind \in {"end", "row", "blank"} THEN DigestFrom(j + 1, taken, text)
    ELSE DigestFrom(j + 1, taken + 1,
                    IF text = "" THEN Trim(ShapeAt(j).text)
                    ELSE text \o " " \o Trim(ShapeAt(j).text))

\* C21: a summary section has no rows, and its summary is the digest of its
\* body: at most 3 of the first 8 body lines, none of them blank or a marker
\* line (START, END or "@*"), joined with spaces; a topLevel or allFunctions
\* section has rows and no digest.
C21_SummaryIsTheDigestOfTheBody ==
    (Parsed /\ family \in JournalFamilies) =>
        \A k \in JournalSectionsAt(0) :
            LET section == Val(result.value).journalSections[k]
            IN IF family = "summary"
               THEN section.rows = <<>> /\ section.summary = DigestFrom(1, 0, "")
               ELSE section.summary = ""

(***************************************************************************)
(* SQL profile dumps, line by line.                                        *)
(***************************************************************************)
InitSql == InitDocument("sql")
SpecSql == InitSql /\ [][NextDocument]_vars

\* the dumps the heuristic scan finds in the lines of the result
HeuristicDumps == collectSqlSections(Parsed_lines)

\* the line that ends the body of a dump that starts on line i: its END line, or
\* the line after the last one
SqlBodyEnd(i) ==
    IF \E j \in (i + 1) .. LastLine : ShapeAt(j).kind = "end"
    THEN CHOOSE j \in (i + 1) .. LastLine :
            /\ ShapeAt(j).kind = "end"
            /\ \A m \in (i + 1) .. (j - 1) : ShapeAt(m).kind # "end"
    ELSE LastLine + 1

\* the rows of every heuristic dump are the body lines whose kind is not in
\* excluded, in line order and verbatim, and the dumps follow one another
SqlRowsAreTheBodyLinesBut(excluded) ==
    (Parsed /\ family = "sql") =>
        /\ \A k \in DOMAIN HeuristicDumps :
            LET dump == HeuristicDumps[k]
            IN /\ ShapeAt(dump.line).kind = "start"
               /\ SeqLines(dump.rows) =
                    {j \in (dump.line + 1) .. (SqlBodyEnd(dump.line) - 1) :
                        ShapeAt(j).kind \notin excluded}
               /\ \A r \in DOMAIN dump.rows :
                    dump.rows[r].text = ShapeAt(dump.rows[r].line).text
               /\ \A a, b \in DOMAIN dump.rows : a < b => dump.rows[a].line < dump.rows[b].line
        /\ \A a, b \in DOMAIN HeuristicDumps :
            a < b => HeuristicDumps[a].endLine < HeuristicDumps[b].line

\* C22: the rows of a heuristic SQL dump are, in line order and verbatim, the
\* lines between the start marker and the end marker (or the end of the input)
\* that are not blank, not the column header and not a separator made only of
\* underscores; heuristic dumps are disjoint and ascending by line.
C22_RowsAreTheBodyLinesButUnderscores ==
    SqlRowsAreTheBodyLinesBut({"blank", "header", "underscores"})

\* C22 as amended: a separator may be made of underscores and dashes.
C22_RowsAreTheBodyLinesButSeparators ==
    SqlRowsAreTheBodyLinesBut({"blank", "header", "underscores", "dashes"})

\* a dump of a separator of dashes and a row: the row alone is kept
C22_Witness ==
    /\ Parsed /\ family = "sql"
    /\ Len(HeuristicDumps) = 1
    /\ Len(shape) = 3
    /\ shape[1].kind = "start" /\ shape[2].kind = "dashes" /\ shape[3].kind = "row"
    /\ SeqLines(HeuristicDumps[1].rows) = {2}

(***************************************************************************)
(* The merge of the SQL dumps of the grammar pass and of the heuristic scan.*)
(***************************************************************************)
\* the dumps the visitor collects from the tree of the grammar pass
GrammarDumps == VisitAll(Parsed_lines, LogFile(Parsed_lines), "sqlDump", 1)

\* the indices of the dumps of a list that start on a line
DumpsAtLine(dumps, line) == {k \in DOMAIN dumps : dumps[k].line = line}

\* C23: a dump both passes report at the same start line is in the result once,
\* with rows that are not empty when either pass has rows for it; a dump only
\* the heuristic scan reports is in the result as it is; no two dumps of the
\* result start on the same line, every heuristic dump is there exactly once,
\* and sqlDumps is in ascending order of line.
C23_MergedDumpsOncePerLineAscending ==
    Parsed =>
        LET merged == Val(result.value).sqlDumps
        IN /\ \A g \in DOMAIN GrammarDumps : \A h \in DOMAIN HeuristicDumps :
                GrammarDumps[g].line = HeuristicDumps[h].line =>
                    /\ Cardinality(DumpsAtLine(merged, GrammarDumps[g].line)) = 1
                    /\ \A k \in DumpsAtLine(merged, GrammarDumps[g].line) :
                        (Len(GrammarDumps[g].rows) > 0 \/ Len(HeuristicDumps[h].rows) > 0)
                            => Len(merged[k].rows) > 0
           /\ \A h \in DOMAIN HeuristicDumps :
                /\ Cardinality(DumpsAtLine(merged, HeuristicDumps[h].line)) = 1
                /\ DumpsAtLine(GrammarDumps, HeuristicDumps[h].line) = {}
                    => \E k \in DOMAIN merged : merged[k] = HeuristicDumps[h]
           /\ \A a, b \in DOMAIN merged : a # b => merged[a].line # merged[b].line
           /\ \A a, b \in DOMAIN merged : a < b => merged[a].line < merged[b].line

(***************************************************************************)
(* Access checks, line by line.                                            *)
(***************************************************************************)
InitAccess == InitDocument("access")
SpecAccess == InitAccess /\ [][NextDocument]_vars

\* C24: every line on which an AM_check_priv(MODE) on TARGET occurrence
\* appears, wherever on the line, has an AccessCheck with its line index and
\* the trimmed mode and target; the other lines have none.
C24_EveryOccurrenceGivesAnAccessCheck ==
    (Parsed /\ family = "access") =>
        LET checks == Val(result.value).accessChecks
        IN /\ SeqLines(checks) = {j \in 0 .. LastLine : ShapeAt(j).kind = "check"}
           /\ \A k \in DOMAIN checks :
                /\ checks[k].mode = ShapeAt(checks[k].line).mode
                /\ checks[k].target = ShapeAt(checks[k].line).target

(***************************************************************************)
(* START lines of journal variants, line by line.                          *)
(***************************************************************************)
InitVariant == InitDocument("variant")
SpecVariant == InitVariant /\ [][NextDocument]_vars

\* C25: the START line of a new journal variant, START JOURNALLED_TIMES_ and
\* anything but IN_ALL_FUNCTIONS or IN_TOP_LEVEL_FUNCTIONS, is claimed by the
\* generic pattern and gives a JournalSection of type summary.
C25_NewVariantIsClaimedAsSummary ==
    (Parsed /\ family = "variant") =>
        \A j \in 0 .. LastLine :
            ShapeAt(j).kind = "variant" =>
                \E k \in JournalSectionsAt(j) :
                    Val(result.value).journalSections[k].type = "summary"

\* C25 as amended: the generic pattern claims no such line.  The line gives no
\* JournalSection, unless what follows JOURNALLED_TIMES_ begins with
\* IN_ALL_FUNCTIONS or IN_TOP_LEVEL_FUNCTIONS in any letter case: then it gives
\* one section, of type allFunctions or topLevel.
C25_NewVariantIsNeverASummary ==
    (Parsed /\ family = "variant") =>
        \A j \in 0 .. LastLine :
            ShapeAt(j).kind = "variant" =>
                IF ShapeAt(j).claimedBy = "none" THEN JournalSectionsAt(j) = {}
                ELSE /\ Cardinality(JournalSectionsAt(j)) = 1
                     /\ \A k \in JournalSectionsAt(j) :
                            Val(result.value).journalSections[k].type = ShapeAt(j).claimedBy

\* a variant no pattern claims, then a summary START line and its END line: one
\* section, that of the summary
C25_Witness ==
    /\ Parsed /\ family = "variant"
    /\ Len(shape) = 3
    /\ shape[1].kind = "variant" /\ shape[1].claimedBy = "none"
    /\ shape[2].kind = "start"
    /\ shape[3].kind = "end"
    /\ Len(Val(result.value).journalSections) = 1
    /\ Val(result.value).journalSections[1].line = 1
    /\ Val(result.value).journalSections[1].type = "summary"

(***************************************************************************)
(* Journal hierarchy traces, line by line.                                 *)
(***************************************************************************)
InitTrace == InitDocument("trace")
SpecTrace == InitTrace /\ [][NextDocument]_vars

\* the last line of the body of a trace that starts on line i: the line before
\* the nearest END line, or the last line of the input
TraceBodyEnd(i) ==
    IF \E j \in (i + 1) .. LastLine : ShapeAt(j).kind = "end"
    THEN (CHOOSE j \in (i + 1) .. LastLine :
            /\ ShapeAt(j).kind = "end"
            /\ \A m \in (i + 1) .. (j - 1) : ShapeAt(m).kind # "end") - 1
    ELSE LastLine

\* the header lines of the body of a trace that starts on line i
TraceHeaderLines(i) == {j \in (i + 1) .. TraceBodyEnd(i) : ShapeAt(j).kind = "header"}

\* C26: a journal hierarchy trace ends at the nearest END line, or at the last
\* line of the input when there is none; its header is the first body line that
\* begins with %Total, if there is one; its rows are, in line order, the other
\* body lines that match the pattern of six numeric columns and a text; the
\* other lines give no row and no error; traces are disjoint, and every START
\* line outside a trace starts one.
C26_TraceEndsHeaderRowsDisjoint ==
    (phase = "parsed" /\ family = "trace") =>
        /\ ~result.threw
        /\ LET traces == Val(result.value).journalHierarchyTraces
           IN /\ \A k \in DOMAIN traces :
                    LET trace == traces[k]
                    IN /\ ShapeAt(trace.line).kind = "start"
                       /\ trace.endLine =
                            IF \E j \in (trace.line + 1) .. LastLine : ShapeAt(j).kind = "end"
                            THEN TraceBodyEnd(trace.line) + 1 ELSE LastLine
                       /\ IF TraceHeaderLines(trace.line) = {} THEN IsNull(trace.header)
                          ELSE \E j \in TraceHeaderLines(trace.line) :
                                /\ \A m \in TraceHeaderLines(trace.line) : j <= m
                                /\ trace.header = Some(Trim(ShapeAt(j).text))
                       /\ SeqLines(trace.rows) =
                            {j \in (trace.line + 1) .. TraceBodyEnd(trace.line) :
                                ShapeAt(j).kind = "row"}
                       /\ \A a, b \in DOMAIN trace.rows :
                            a < b => trace.rows[a].line < trace.rows[b].line
              /\ \A a, b \in DOMAIN traces : a < b => traces[a].endLine < traces[b].line
              /\ \A j \in 0 .. LastLine :
                    ShapeAt(j).kind = "start" =>
                        \E k \in DOMAIN traces : traces[k].line <= j /\ j <= traces[k].endLine

\* a trace of a header line and a row, with no END line: the header is
\* recorded, the row is the row's line, and the trace ends at the last line
C26_Witness ==
    /\ Parsed /\ family = "trace"
    /\ Len(shape) = 3
    /\ shape[1].kind = "start"
    /\ shape[2].kind = "header"
    /\ shape[3].kind = "row"
    /\ Len(Val(result.value).journalHierarchyTraces) = 1
    /\ Val(result.value).journalHierarchyTraces[1].header = Some(Trim(shape[2].text))
    /\ SeqLines(Val(result.value).journalHierarchyTraces[1].rows) = {2}
    /\ Val(result.value).journalHierarchyTraces[1].endLine = LastLine

(***************************************************************************)
(* Edits and the refresh timer.  Time is counted in milliseconds; the      *)
(* timers of the runtime that have not fired are kept with their due time. *)
(* probe holds the clock, the timers, and the change events and timer runs *)
(* so far.                                                                 *)
(***************************************************************************)
\* how many events (changes, opens, closes, passages of time) a run has
MaxSteps == 4

\* the delay of the timer of handleDocumentChanged
RefreshDelay == 300

\* the editors of both syslog files are visible
EditorsShown == {"file:///a.syslog", "file:///B.SYSLOG"}

OpenedText == Text("INFO - 2021/11/22-10:15:30 UTC - srv.1 - started\n")
EditedText == Text("INFO - 2021/11/22-10:15:30 UTC - srv.1 - started\nSELECT a FROM t\n")

\* the documents that are opened, and the documents of change events
OpenedDocuments == {[uri |-> u, text |-> OpenedText] : u \in EditorsShown}
ChangedDocuments == {[uri |-> u, text |-> EditedText] : u \in EditorsShown}

\* handleDocumentChanged without clearTimeout
handleDocumentChangedKeepingTimers(v, timers, document, now, id) ==
    IF IsNull(v.currentUri) \/ Val(v.currentUri) # document.uri
    THEN [view |-> v, timers |-> timers]
    ELSE [view |-> [v EXCEPT !.pendingDocument = Some(document), !.refreshTimer = Some(id)],
          timers |-> timers \cup {[id |-> id, due |-> now + RefreshDelay]}]

\* handleDocumentChanged at time now, where setTimeout returns id: the
\* controller and the timers of the runtime afterwards
handleDocumentChanged(v, timers, document, now, id) ==
    IF IsNull(v.currentUri) \/ Val(v.currentUri) # document.uri
    THEN [view |-> v, timers |-> timers]
    ELSE [view |-> [v EXCEPT !.pendingDocument = Some(document), !.refreshTimer = Some(id)],
          timers |-> {t \in timers : Some(t.id) # v.refreshTimer}
                        \cup {[id |-> id, due |-> now + RefreshDelay]}]

\* the end of the callback of the timer, after its refresh
TimerCleared(after) ==
    [view |-> [after.view EXCEPT !.refreshTimer = Null, !.pendingDocument = Null],
     lastIndex |-> after.lastIndex]

\* the callback of the timer
refreshTimerCallback(v, index) ==
    TimerCleared(refresh(v, EditorsShown, v.pendingDocument, index))

NoEvents == [now |-> 0, steps |-> 0, timers |-> {}, history |-> <<>>]

\* the runtime runs the callback of a timer when its time has come, before
\* it delivers another event
NoTimerDue == \A t \in probe.timers : probe.now < t.due

\* the controller is new, or shows a document it has been handed
InitDebounce ==
    /\ \/ view = NewView
       \/ \E document \in OpenedDocuments :
            view = [refresh(NewView, EditorsShown, Some(document), 0).view
                        EXCEPT !.outcome = "new"]
    /\ probe = NoEvents
    /\ favorites = <<>>
    /\ content = Text("")
    /\ nChunks = 0
    /\ family = ""
    /\ phase = "timer"
    /\ result = NoResult
    /\ lastIndex = 0
    /\ calls = <<>>
    /\ shape = <<>>
    /\ chat = <<>>

\* a change event of a document arrives
Change(document) ==
    /\ phase = "timer"
    /\ probe.steps < MaxSteps
    /\ NoTimerDue
    /\ LET after == handleDocumentChanged(view, probe.timers, document, probe.now,
                                          Len(probe.history) + 1)
       IN  /\ view' = after.view
           /\ probe' = [probe EXCEPT
                  !.steps = @ + 1,
                  !.timers = after.timers,
                  !.history = Append(@,
                      [kind |-> "change", at |-> probe.now, document |-> Some(document),
                       current |-> view.currentUri = Some(document.uri),
                       scheduled |-> after.timers # probe.timers])]
    /\ UNCHANGED <<content, nChunks, family, phase, result, lastIndex, calls, shape, chat, favorites>>

\* time passes, but not past the due time of a timer
Tick(d) ==
    /\ phase = "timer"
    /\ probe.steps < MaxSteps
    /\ \A t \in probe.timers : probe.now + d <= t.due
    /\ probe' = [probe EXCEPT !.steps = @ + 1, !.now = @ + d]
    /\ UNCHANGED <<content, nChunks, family, phase, result, lastIndex, calls, shape, chat, view, favorites>>

\* a timer that is due fires
TimerFires(t) ==
    /\ phase = "timer"
    /\ t \in probe.timers
    /\ t.due <= probe.now
    /\ Becomes(refreshTimerCallback(view, lastIndex))
    /\ probe' = [probe EXCEPT
           !.timers = @ \ {t},
           !.history = Append(@, [kind |-> "run", at |-> probe.now,
                                  document |-> view.pendingDocument,
                                  current |-> FALSE, scheduled |-> FALSE])]
    /\ UNCHANGED <<content, nChunks, family, phase, result, calls, shape, chat, favorites>>

\* handleDocumentOpened
Open(document) ==
    /\ phase = "timer"
    /\ probe.steps < MaxSteps
    /\ NoTimerDue
    /\ Becomes(refresh(view, EditorsShown, Some(document), lastIndex))
    /\ probe' = [probe EXCEPT !.steps = @ + 1]
    /\ UNCHANGED <<content, nChunks, family, phase, result, calls, shape, chat, favorites>>

\* handleDocumentClosed of the current document
Close ==
    /\ phase = "timer"
    /\ probe.steps < MaxSteps
    /\ NoTimerDue
    /\ ~IsNull(view.currentUri)
    /\ view' = [clearView(view, EditorsShown, "Open a .syslog file to see parsed categories.")
                    EXCEPT !.outcome = "closed"]
    /\ probe' = [probe EXCEPT !.steps = @ + 1]
    /\ UNCHANGED <<content, nChunks, family, phase, result, lastIndex, calls, shape, chat, favorites>>

NextDebounce ==
    \/ \E document \in ChangedDocuments : Change(document)
    \/ \E d \in {100, 300} : Tick(d)
    \/ \E t \in probe.timers : TimerFires(t)
    \/ \E document \in OpenedDocuments : Open(document)
    \/ Close

SpecDebounce == InitDebounce /\ [][NextDebounce]_vars

\* the change events that set a timer, and the runs of the callback
IsScheduled(i) == probe.history[i].kind = "change" /\ probe.history[i].scheduled
IsRun(i) == probe.history[i].kind = "run"

\* the last change event before entry i that set a timer; 0 when there is none
LastScheduledBefore(i) ==
    LET before == {j \in 1..(i - 1) : IsScheduled(j)}
    IN  IF before = {} THEN 0 ELSE CHOOSE j \in before : \A k \in before : k <= j

\* C27: every run of the timer's callback comes RefreshDelay after the last
\* change event that set a timer, on the document of that event, with no
\* other run after that event; a change event that set a timer and was
\* followed by another one before any run came less than RefreshDelay before
\* it; the last burst has its run or a pending timer RefreshDelay after its
\* last event; at most one timer is pending at any time; a change event sets
\* a timer exactly when its document is the current document.
C27_ReparsesAreDebounced ==
    /\ Cardinality(probe.timers) <= 1
    /\ \A i \in DOMAIN probe.history :
         /\ probe.history[i].kind = "change"
                => (probe.history[i].scheduled <=> probe.history[i].current)
         /\ IsRun(i) =>
              LET j == LastScheduledBefore(i)
              IN  /\ j > 0
                  /\ \A k \in (j + 1)..(i - 1) : ~IsRun(k)
                  /\ probe.history[i].at = probe.history[j].at + RefreshDelay
                  /\ probe.history[i].document = probe.history[j].document
         /\ IsScheduled(i) =>
              LET j == LastScheduledBefore(i)
              IN  (j > 0 /\ \A k \in (j + 1)..(i - 1) : ~IsRun(k))
                      => probe.history[i].at - probe.history[j].at < RefreshDelay
    /\ LET n == Len(probe.history) + 1
           j == LastScheduledBefore(n)
       IN  (j > 0 /\ \A k \in (j + 1)..(n - 1) : ~IsRun(k))
               => /\ probe.now <= probe.history[j].at + RefreshDelay
                  /\ probe.timers = {[id |-> j, due |-> probe.history[j].at + RefreshDelay]}
                  /\ view.refreshTimer = Some(j)
                  /\ view.pendingDocument = probe.history[j].document

\* two change events of the current document 100 ms apart, then one run
C27_Witness ==
    /\ Len(probe.history) = 3
    /\ IsScheduled(1) /\ IsScheduled(2) /\ IsRun(3)
    /\ probe.history[2].at = probe.history[1].at + 100
    /\ probe.history[3].at = probe.history[2].at + RefreshDelay
    /\ probe.history[3].document = probe.history[2].document
    /\ probe.timers = {}
    /\ view.outcome = "parsed"
    /\ ~IsNull(view.latestParsed)

\* the step is a run of the timer's callback
TimerRuns ==
    /\ Len(probe'.history) = Len(probe.history) + 1
    /\ probe'.history[Len(probe'.history)].kind = "run"

\* C28: a run of the timer's callback that finds the view cleared (no
\* current document) leaves it cleared: currentUri and latestParsed stay
\* null and both trees stay empty.
C28_ClearedViewStaysClearedWhenTheTimerRuns ==
    [][(TimerRuns /\ IsNull(view.currentUri))
          => /\ IsNull(view'.currentUri)
             /\ IsNull(view'.latestParsed)
             /\ view'.treeModel = EmptyModel
             /\ view'.extraModel = EmptyModel]_vars

(***************************************************************************)
(* FavoritesManager (logic/favoritesManager.js): the favorites of the      *)
(* current document, their `.favorite` files and the reads in flight.      *)
(* A favorite is an object of the heap `objects`; entries holds references *)
(* to objects and entryMap maps an id to a reference.  Of a favorite the   *)
(* id, line, createdAt and comment are kept; times are numbers, and the    *)
(* manager is made at time 10, later than the times in the files.          *)
(***************************************************************************)
\* how many operations the user and the controller start
MaxOps == 4

\* the ids generateId returns, in the order of the calls
GENERATED == <<"g1", "g2", "g3", "g4", "g5", "g6", "g7", "g8", "g9", "g10", "g11", "g12">>

\* the documents the controller hands to setActiveDocument
FavoriteDocuments == {[uri |-> "file:///a.syslog"], [uri |-> "file:///B.SYSLOG"]}

\* s.lastIndexOf(c) for a character c, or -1
LastIndexOf(s, c) ==
    IF \E k \in 0 .. (Len(s) - 1) : CharAt(s, k) = c
    THEN CHOOSE k \in 0 .. (Len(s) - 1) :
            CharAt(s, k) = c /\ \A j \in (k + 1) .. (Len(s) - 1) : CharAt(s, j) # c
    ELSE -1

\* getFavoritesUri(resource): the file <name>.favorite in the directory of
\* the resource, where name is the base name without its last extension
getFavoritesUri(resource) ==
    LET fsPath == FileName(resource)
        slash == LastIndexOf(fsPath, "/")
        base == SliceFrom(fsPath, slash + 1)
        dot == LastIndexOf(base, ".")
        name == IF dot <= 0 THEN base ELSE Slice(base, 0, dot)
        dir == IF slash <= 0 THEN "/" ELSE Slice(fsPath, 0, slash)
    IN  "file://" \o (IF dir = "/" THEN dir ELSE dir \o "/") \o name \o ".favorite"

\* an entry of the entries array of a `.favorite` file
FileEntry(id, line, createdAt) ==
    [id |-> id, line |-> line, createdAt |-> createdAt, comment |-> ""]

\* what a `.favorite` file holds: no file at all (ENOENT), or the entries
\* array of its JSON text (none when the text is blank)
Missing == [exists |-> FALSE, entries |-> <<>>]
File(entries) == [exists |-> TRUE, entries |-> entries]

FileContents ==
    {Missing,
     File(<<>>),
     File(<<FileEntry(Some("x"), Some(7), 2), FileEntry(Some("y"), Some(3), 1)>>),
     File(<<FileEntry(Some("z"), Null, 1), FileEntry(Null, Some(3), 3)>>),
     File(<<FileEntry(Some("x"), Some(5), 1), FileEntry(Some(" x "), Some(2), 2)>>)}

\* Map.prototype.set and Map.prototype.delete
MapSet(map, key, value) ==
    [k \in DOMAIN map \cup {key} |-> IF k = key THEN value ELSE map[k]]
MapDelete(map, key) == [k \in DOMAIN map \ {key} |-> map[k]]

\* the references an array holds
Refs(entries) == {entries[i] : i \in DOMAIN entries}

\* normalizeNumber(value, fallback), of a finite number or of another value
normalizeNumber(value, fallback) == IF IsNull(value) THEN fallback ELSE value

\* the FavoritesManager after its constructor, with the files of the disk
NewFavorites(files) ==
    [entries         |-> <<>>,
     entryMap        |-> <<>>,
     objects         |-> <<>>,
     currentResource |-> Null,
     favoritesUri    |-> Null,
     tree            |-> [resource |-> Null, entries |-> <<>>],
     message         |-> Some("Add favorites from the Content view or directly from the editor."),
     files           |-> files,
     reads           |-> {},
     started         |-> 0,
     generated       |-> 0,
     now             |-> 10,
     ops             |-> 0,
     last            |-> "new",
     overlapped      |-> FALSE,
     race            |-> Null]

\* clear()
clear(f) ==
    [f EXCEPT !.entries = <<>>,
              !.entryMap = <<>>,
              !.currentResource = Null,
              !.favoritesUri = Null,
              !.message = Some("Add favorites from the Content view or directly from the editor."),
              !.tree = [resource |-> Null, entries |-> <<>>]]

\* the comparator of sortEntries is positive for favorites a and b
SortsAfter(a, b) ==
    IF a.line # b.line
    THEN ~IsNull(b.line) /\ (IsNull(a.line) \/ Val(a.line) > Val(b.line))
    ELSE a.createdAt > b.createdAt

\* Array.prototype.sort with that comparator (a stable sort): the references
\* from position i on are put into sorted one by one
RECURSIVE SortedFrom(_, _, _, _)
SortedFrom(entries, i, sorted, objects) ==
    IF i > Len(entries) THEN sorted
    ELSE LET later == {k \in DOMAIN sorted :
                          SortsAfter(objects[sorted[k]], objects[entries[i]])}
             at == IF later = {} THEN Len(sorted) + 1
                   ELSE CHOOSE k \in later : \A j \in later : k <= j
         IN  SortedFrom(entries, i + 1,
                      SubSeq(sorted, 1, at - 1) \o <<entries[i]>>
                          \o SubSeq(sorted, at, Len(sorted)),
                      objects)

\* sortEntries()
sortEntries(f) == [f EXCEPT !.entries = SortedFrom(f.entries, 1, <<>>, f.objects)]

\* refreshTree(): a node of the tree carries the id of its favorite
refreshTree(f) ==
    IF IsNull(f.currentResource)
    THEN [f EXCEPT !.tree = [resource |-> Null, entries |-> <<>>],
                   !.message = Some("Open a .syslog file to manage favorites.")]
    ELSE IF Len(f.entries) = 0
    THEN [f EXCEPT !.tree = [resource |-> f.currentResource, entries |-> <<>>],
                   !.message = Some("No favorites saved for this syslog.")]
    ELSE [f EXCEPT !.tree = [resource |-> f.currentResource,
                             entries |-> [i \in DOMAIN f.entries |-> f.objects[f.entries[i]].id]],
                   !.message = Null]

\* normalizeEntry(entry) for the entries of a file from position i on: each
\* becomes a new object, is set in entryMap under its id and is appended
RECURSIVE normalizeEntries(_, _, _)
normalizeEntries(f, raw, i) ==
    IF i > Len(raw) THEN f
    ELSE LET named == ~IsNull(raw[i].id) /\ Trim(Val(raw[i].id)) # ""
             id == IF named THEN Trim(Val(raw[i].id)) ELSE GENERATED[f.generated + 1]
             favorite == [id |-> id,
                          line |-> normalizeNumber(raw[i].line, Null),
                          createdAt |-> raw[i].createdAt,
                          comment |-> raw[i].comment]
         IN  normalizeEntries(
                 [f EXCEPT !.objects = Append(@, favorite),
                           !.entryMap = MapSet(@, id, Len(f.objects) + 1),
                           !.entries = Append(@, Len(f.objects) + 1),
                           !.generated = IF named THEN @ ELSE @ + 1],
                 raw, i + 1)

\* loadFavorites() up to its await: the read of the file is in flight
loadFavorites(f) ==
    IF IsNull(f.favoritesUri)
    THEN refreshTree([f EXCEPT !.entries = <<>>, !.entryMap = <<>>])
    ELSE [f EXCEPT !.entries = <<>>,
                   !.entryMap = <<>>,
                   !.started = @ + 1,
                   !.reads = @ \cup {[load |-> f.started + 1, uri |-> Val(f.favoritesUri)]}]

\* loadFavorites() from its await on, when the read of `read` has completed
loadFavoritesResumed(f, read) ==
    LET g == [f EXCEPT !.reads = @ \ {read}]
        file == f.files[read.uri]
    IN  refreshTree(sortEntries(
            IF file.exists
            THEN normalizeEntries([g EXCEPT !.entries = <<>>], file.entries, 1)
            ELSE [g EXCEPT !.entries = <<>>, !.entryMap = <<>>]))

\* setActiveDocument(document, parsed) up to the await of its load
setActiveDocument(f, document) ==
    IF IsNull(document) THEN clear(f)
    ELSE loadFavorites([f EXCEPT !.currentResource = Some(Val(document).uri),
                                 !.favoritesUri = Some(getFavoritesUri(Val(document).uri))])

\* what JSON.stringify writes of the entries, as the entries of the file
Payload(f) ==
    [i \in DOMAIN f.entries |->
        LET favorite == f.objects[f.entries[i]]
        IN  [id |-> Some(favorite.id), line |-> favorite.line,
             createdAt |-> favorite.createdAt, comment |-> favorite.comment]]

\* saveFavorites()
saveFavorites(f) ==
    IF IsNull(f.favoritesUri) THEN f
    ELSE [f EXCEPT !.files[Val(f.favoritesUri)] = File(Payload(f))]

\* addFavorite(payload)
addFavorite(f, payload) ==
    IF IsNull(f.currentResource) THEN f
    ELSE LET entry == [id |-> GENERATED[f.generated + 1],
                       line |-> normalizeNumber(payload.line, Null),
                       createdAt |-> f.now,
                       comment |-> Trim(payload.comment)]
         IN  refreshTree(saveFavorites(sortEntries(
                 [f EXCEPT !.generated = @ + 1,
                           !.objects = Append(@, entry),
                           !.entries = Append(@, Len(f.objects) + 1),
                           !.entryMap = MapSet(@, entry.id, Len(f.objects) + 1)])))

\* editFavorite(node), where value is what the input box gave
editFavorite(f, node, value) ==
    IF IsNull(node) THEN f
    ELSE IF Val(node).favoriteId \notin DOMAIN f.entryMap THEN f
    ELSE IF IsNull(value) THEN f
    ELSE refreshTree(saveFavorites(
             [f EXCEPT !.objects[f.entryMap[Val(node).favoriteId]].comment = Trim(Val(value))]))

\* removeFavorite(node)
removeFavorite(f, node) ==
    IF IsNull(node) THEN f
    ELSE IF Val(node).favoriteId \notin DOMAIN f.entryMap THEN f
    ELSE LET favorite == f.objects[f.entryMap[Val(node).favoriteId]]
             found == {i \in DOMAIN f.entries : f.objects[f.entries[i]].id = favorite.id}
         IN  IF found = {} THEN f
             ELSE LET index == CHOOSE i \in found : \A j \in found : i <= j
                  IN  refreshTree(saveFavorites(
                          [f EXCEPT !.entries = SubSeq(@, 1, index - 1)
                                                    \o SubSeq(@, index + 1, Len(@)),
                                    !.entryMap = MapDelete(@, favorite.id)]))

\* the `.favorite` files of the documents
FavoriteFiles == {getFavoritesUri(document.uri) : document \in FavoriteDocuments}

\* what addFavorite is handed, and what the input box of editFavorite gives
Payloads == {[line |-> Some(4), comment |-> " note "], [line |-> Null, comment |-> ""]}
InputValues == {Null, Some(" seen ")}

\* the manager is new; the disk holds a `.favorite` file, or none, for
\* each document
InitFavorites ==
    /\ \E files \in [FavoriteFiles -> FileContents] : favorites = NewFavorites(files)
    /\ content = Text("")
    /\ nChunks = 0
    /\ family = ""
    /\ phase = "favorites"
    /\ result = NoResult
    /\ lastIndex = 0
    /\ calls = <<>>
    /\ shape = <<>>
    /\ probe = <<>>
    /\ chat = <<>>
    /\ view = <<>>

\* an operation starts: time has passed, and the operation overlaps a load
\* when a read is in flight
Started(f, operation, race) ==
    [f EXCEPT !.ops = favorites.ops + 1,
              !.last = operation,
              !.now = favorites.now + 1,
              !.overlapped = favorites.overlapped \/ favorites.reads # {},
              !.race = race]

\* the controller calls setActiveDocument(document) and does not await it;
\* the call races with the call before it when that was a setActiveDocument
\* whose load, and no other, is still reading its file
SetActiveDocument(document) ==
    /\ phase = "favorites"
    /\ favorites.ops < MaxOps
    /\ favorites' = Started(setActiveDocument(favorites, Some(document)),
                            "setActiveDocument",
                            IF favorites.last = "setActiveDocument"
                                   /\ favorites.reads = {[load |-> favorites.started,
                                                          uri |-> Val(favorites.favoritesUri)]}
                            THEN Some([first |-> Val(favorites.currentResource),
                                       second |-> document.uri])
                            ELSE Null)
    /\ UNCHANGED <<content, nChunks, family, phase, result, lastIndex, calls, shape, probe,
                   chat, view>>

\* the read of a load completes and the load runs to its end
ReadCompletes(read) ==
    /\ phase = "favorites"
    /\ read \in favorites.reads
    /\ favorites' = loadFavoritesResumed(favorites, read)
    /\ UNCHANGED <<content, nChunks, family, phase, result, lastIndex, calls, shape, probe,
                   chat, view>>

AddFavorite(payload) ==
    /\ phase = "favorites"
    /\ favorites.ops < MaxOps
    /\ favorites' = Started(addFavorite(favorites, payload), "addFavorite", Null)
    /\ UNCHANGED <<content, nChunks, family, phase, result, lastIndex, calls, shape, probe,
                   chat, view>>

\* editFavorite of the i-th node of the tree
EditFavorite(i, value) ==
    /\ phase = "favorites"
    /\ favorites.ops < MaxOps
    /\ i \in DOMAIN favorites.tree.entries
    /\ favorites' = Started(editFavorite(favorites,
                                         Some([favoriteId |-> favorites.tree.entries[i]]),
                                         value), "editFavorite", Null)
    /\ UNCHANGED <<content, nChunks, family, phase, result, lastIndex, calls, shape, probe,
                   chat, view>>

\* removeFavorite of the i-th node of the tree
RemoveFavorite(i) ==
    /\ phase = "favorites"
    /\ favorites.ops < MaxOps
    /\ i \in DOMAIN favorites.tree.entries
    /\ favorites' = Started(removeFavorite(favorites,
                                           Some([favoriteId |-> favorites.tree.entries[i]])),
                            "removeFavorite", Null)
    /\ UNCHANGED <<content, nChunks, family, phase, result, lastIndex, calls, shape, probe,
                   chat, view>>

\* clearView of the controller calls clear()
Clear ==
    /\ phase = "favorites"
    /\ favorites.ops < MaxOps
    /\ favorites' = Started(clear(favorites), "clear", Null)
    /\ UNCHANGED <<content, nChunks, family, phase, result, lastIndex, calls, shape, probe,
                   chat, view>>

NextFavorites ==
    \/ \E document \in FavoriteDocuments : SetActiveDocument(document)
    \/ \E read \in favorites.reads : ReadCompletes(read)
    \/ \E payload \in Payloads : AddFavorite(payload)
    \/ \E i \in DOMAIN favorites.tree.entries, value \in InputValues : EditFavorite(i, value)
    \/ \E i \in DOMAIN favorites.tree.entries : RemoveFavorite(i)
    \/ Clear

SpecFavorites == InitFavorites /\ [][NextFavorites]_vars

\* the ids, in the order of entries
Ids(f) == [i \in DOMAIN f.entries |-> f.objects[f.entries[i]].id]

\* what a load of the file at uri, with no other load about, leaves in entries
ReadFrom(files, uri) ==
    Payload(loadFavoritesResumed(
        [NewFavorites(files) EXCEPT !.favoritesUri = Some(uri),
                                    !.reads = {[load |-> 1, uri |-> uri]}],
        [load |-> 1, uri |-> uri]))

\* the same favorites, where ids that generateId made may differ
SameFavorites(held, read) ==
    /\ Len(held) = Len(read)
    /\ \A i \in DOMAIN held :
         /\ held[i].line = read[i].line
         /\ held[i].createdAt = read[i].createdAt
         /\ held[i].comment = read[i].comment
         /\ \/ held[i].id = read[i].id
            \/ /\ \E k \in DOMAIN GENERATED : held[i].id = Some(GENERATED[k])
               /\ \E k \in DOMAIN GENERATED : read[i].id = Some(GENERATED[k])

\* C29: when setActiveDocument(A) and then setActiveDocument(B) was called
\* while the load for A was reading, and both loads (all loads) have
\* completed, entries holds exactly the favorites of B's file, the tree
\* shows them for B, and saveFavorites would write B's file with them.
C29_RacingLoadsLeaveTheFavoritesOfTheLastDocument ==
    (~IsNull(favorites.race) /\ favorites.reads = {})
        => LET uri == getFavoritesUri(Val(favorites.race).second)
           IN  /\ favorites.favoritesUri = Some(uri)
               /\ SameFavorites(Payload(favorites), ReadFrom(favorites.files, uri))
               /\ favorites.tree = [resource |-> Some(Val(favorites.race).second),
                                    entries |-> Ids(favorites)]
               /\ SameFavorites(saveFavorites(favorites).files[uri].entries,
                                ReadFrom(favorites.files, uri))

\* the entries are in the order of sortEntries
EntriesSorted(f) ==
    \A i, j \in DOMAIN f.entries :
        i < j => ~SortsAfter(f.objects[f.entries[i]], f.objects[f.entries[j]])

\* C30: after operations none of which began while a read was in flight,
\* the keys of entryMap are the ids of entries, every value of entryMap is
\* an element of entries, and entries is sorted by line (no line last),
\* ties by createdAt.
C30_EntryMapAndEntriesAgree ==
    (~favorites.overlapped /\ favorites.reads = {})
        => /\ DOMAIN favorites.entryMap = {Ids(favorites)[i] : i \in DOMAIN favorites.entries}
           /\ \A id \in DOMAIN favorites.entryMap :
                  favorites.entryMap[id] \in Refs(favorites.entries)
           /\ EntriesSorted(favorites)

\* the part of C30 about the order alone
C30_EntriesAreSorted ==
    (~favorites.overlapped /\ favorites.reads = {}) => EntriesSorted(favorites)
=============================================================================
